---- MODULE Spec2Model ----
(***************************************************************************)
(* A model of bookbinder's intermediate representation: the BookSrcBuilder *)
(* (content accumulator), the division classifier divide_into_sections,    *)
(* the stream assembler process(), the header formatter change_headers     *)
(* and the header collation used by the EPUB writer.                       *)
(*                                                                         *)
(* Strings are sequences of one-character strings, so that upper-casing,   *)
(* lower-casing, escaping and prefix tests are computed and not assumed.   *)
(* Markdown tokenisation is the job of the extended_pulldown parser; the   *)
(* builder operations therefore draw their arguments from small sets of    *)
(* token sequences the parser can produce.                                 *)
(***************************************************************************)
EXTENDS Integers, Sequences, FiniteSets, TLC

\* ------------------------------------------------------------------ bounds
\* the number of builder operations called before process()
MaxOps == 3
\* the number of add_mainmatter calls in the mainmatter-only specification
MaxFrags == 3
\* the number of calls of call_latex
MaxCalls == 3
\* the number of pieces a token sequence given to flatten_footnotes is made of
MaxPieces == 3
\* the number of authors of a book
MaxAuthors == 4

\* the modulus of the u8 chapter, part and appendix counters
U8 == 256

\* ------------------------------------------------------------------- text
Lowers == <<"a","b","c","d","e","f","g","h","i","j","k","l","m",
            "n","o","p","q","r","s","t","u","v","w","x","y","z">>

Uppers == <<"A","B","C","D","E","F","G","H","I","J","K","L","M",
            "N","O","P","Q","R","S","T","U","V","W","X","Y","Z">>

UpperChar(c) ==
    IF \E i \in 1..26 : Lowers[i] = c
    THEN Uppers[CHOOSE i \in 1..26 : Lowers[i] = c]
    ELSE c

LowerChar(c) ==
    IF \E i \in 1..26 : Uppers[i] = c
    THEN Lowers[CHOOSE i \in 1..26 : Uppers[i] = c]
    ELSE c

to_uppercase(s) == [i \in 1..Len(s) |-> UpperChar(s[i])]

to_lowercase(s) == [i \in 1..Len(s) |-> LowerChar(s[i])]

starts_with(s, p) == Len(p) <= Len(s) /\ SubSeq(s, 1, Len(p)) = p

RECURSIVE FlattenFrom(_, _, _)
FlattenFrom(ss, lo, hi) ==
    IF lo > hi THEN <<>>
    ELSE IF lo = hi THEN ss[lo]
    ELSE FlattenFrom(ss, lo, (lo + hi) \div 2) \o FlattenFrom(ss, (lo + hi) \div 2 + 1, hi)

Flatten(ss) == FlattenFrom(ss, 1, Len(ss))

\* escape_to_html: the four target characters are replaced, all others kept
\* ("rsquo" stands for the one character U+2019)
EscapeChar(c) ==
    CASE c = "<" -> <<"&","l","t",";">>
      [] c = ">" -> <<"&","g","t",";">>
      [] c = "&" -> <<"&","a","m","p",";">>
      [] c = "'" -> <<"rsquo">>
      [] OTHER   -> <<c>>

escape_to_html(s) == Flatten([i \in 1..Len(s) |-> EscapeChar(s[i])])

DigitChars == <<"0","1","2","3","4","5","6","7","8","9">>

\* format!("{}", n) for a u8
RECURSIVE FormatArabic(_)
FormatArabic(n) ==
    IF n < 10 THEN <<DigitChars[n + 1]>>
    ELSE FormatArabic(n \div 10) \o <<DigitChars[(n % 10) + 1]>>

\* Option<T>
None == [some |-> FALSE]

Some(x) == [some |-> TRUE, val |-> x]

\* ----------------------------------------------------- extended_pulldown
Heading(h) == [name |-> "Heading", level |-> h]

Tag(n) == [name |-> n]

Start(t) == [kind |-> "Start", tag |-> t]

End(t) == [kind |-> "End", tag |-> t]

Text(s) == [kind |-> "Text", text |-> s]

\* Event::Code, an inline code span
Code(s) == [kind |-> "Code", text |-> s]

IsStart(e, n) == e.kind = "Start" /\ e.tag.name = n

IsEnd(e, n) == e.kind = "End" /\ e.tag.name = n

IsStartHeading(e, h) == IsStart(e, "Heading") /\ e.tag.level = h

IsEndHeading(e, h) == IsEnd(e, "Heading") /\ e.tag.level = h

\* ----------------------------------------------------------- BookEvent
SemanticRoles == {"Halftitle", "Copyrightpage", "Titlepage", "Dedication",
                  "Foreword", "Afterword", "Introduction", "Colophon",
                  "Epigraph", "Acknowledgements", "Appendix", "Chapter",
                  "Part", "Preface"}

get_label(role) ==
    IF role \in {"Epigraph", "Halftitle", "Copyrightpage", "Titlepage", "Dedication"}
    THEN None
    ELSE Some(CASE role = "Foreword" -> <<"F","o","r","e","w","o","r","d">>
                [] role = "Afterword" -> <<"A","f","t","e","r","w","o","r","d">>
                [] role = "Introduction" -> <<"I","n","t","r","o","d","u","c","t","i","o","n">>
                [] role = "Colophon" -> <<"C","o","l","o","p","h","o","n">>
                [] role = "Acknowledgements" -> <<"A","c","k","n","o","w","l","e","d","g","e","m","e","n","t","s">>
                [] role = "Appendix" -> <<"A","p","p","e","n","d","i","x">>
                [] role = "Chapter" -> <<"C","h","a","p","t","e","r">>
                [] role = "Part" -> <<"P","a","r","t">>
                [] role = "Preface" -> <<"P","r","e","f","a","c","e">>)

BeginSemantic(r) == [type |-> "BeginSemantic", role |-> r]

EndSemantic(r) == [type |-> "EndSemantic", role |-> r]

BEvent(e) == [type |-> "Event", event |-> e]

BeginDivisionHeader(b) == [type |-> "BeginDivisionHeader", starred |-> b]

EndDivisionHeader(b) == [type |-> "EndDivisionHeader", starred |-> b]

DivisionHeaderLabel(t, n, f) ==
    [type |-> "DivisionHeaderLabel", text |-> t, number |-> n, number_format |-> f]

DivisionAuthors(names) == [type |-> "DivisionAuthors", names |-> names]

TitlePageContributors(v) == [type |-> "TitlePageContributors", contributors |-> v]

Marker(t) == [type |-> t]

Null == Marker("Null")

\* From<Event> for BookEvent, mapped over a vector
ToBookEvents(events) == [i \in 1..Len(events) |-> BEvent(events[i])]

IsText(be) == be.type = "Event" /\ be.event.kind = "Text"

\* ------------------------------------------------------------ ParseHelper
\* InlineParser over a vector of events: inline tags and text pass unless
\* inside a dropped tag, paragraph and block-quote tags are skipped without
\* dropping their contents, any other tag drops what it encloses
InlineTags == {"Emphasis", "Strong", "SmallCaps", "Subscript", "Superscript", "Link"}

SkippedTags == {"Paragraph", "UnindentedParagraph", "BlockQuote"}

RECURSIVE InlineFrom(_, _, _)
InlineFrom(events, i, in_dropped_tag) ==
    IF i > Len(events) THEN <<>>
    ELSE LET e == events[i] IN
         IF e.kind = "Text" \/ (e.kind \in {"Start", "End"} /\ e.tag.name \in InlineTags)
         THEN (IF in_dropped_tag THEN <<>> ELSE <<e>>)
              \o InlineFrom(events, i + 1, in_dropped_tag)
         ELSE IF e.kind \in {"Start", "End"} /\ e.tag.name \in SkippedTags
         THEN InlineFrom(events, i + 1, in_dropped_tag)
         ELSE IF e.kind = "Start" THEN InlineFrom(events, i + 1, TRUE)
         ELSE IF e.kind = "End" THEN InlineFrom(events, i + 1, FALSE)
         ELSE InlineFrom(events, i + 1, in_dropped_tag)

parse_inline_plain(events) == InlineFrom(events, 1, FALSE)

\* ParseHelper for Vec<Event>
parse_plain(events) == events

parse_inline(events) == ToBookEvents(parse_inline_plain(events))

parse(events) == ToBookEvents(parse_plain(events))

\* ------------------------------------------------------------ EventHelper
make_paragraphs_unindented(events) ==
    [i \in 1..Len(events) |->
        IF IsStart(events[i], "Paragraph") THEN Start(Tag("UnindentedParagraph"))
        ELSE IF IsEnd(events[i], "Paragraph") THEN End(Tag("UnindentedParagraph"))
        ELSE events[i]]

\* the position of the first End(Heading(1)), which the code unwraps
TitleEnd(events) == CHOOSE i \in 1..Len(events) :
    /\ IsEndHeading(events[i], 1)
    /\ \A j \in 1..(i - 1) : ~IsEndHeading(events[j], 1)

\* remove_initial_title: [title |-> Option<Vec<Event>>, rest |-> what is left]
remove_initial_title(events) ==
    IF events # <<>> /\ IsStartHeading(events[1], 1)
    THEN [title |-> Some(SubSeq(events, 2, TitleEnd(events) - 1)),
          rest  |-> SubSeq(events, TitleEnd(events) + 1, Len(events))]
    ELSE [title |-> None, rest |-> events]

UppercaseIgnoredTags == {"CodeBlock", "List", "FootnoteDefinition", "Link", "Image",
                         "SmallCaps", "Subscript", "Superscript", "FlattenedFootnote"}

RECURSIVE UppercaseFrom(_, _, _)
UppercaseFrom(events, i, ignore) ==
    IF i > Len(events) THEN <<>>
    ELSE LET e == events[i] IN
         IF e.kind = "Text" /\ ignore = 0
         THEN <<Text(to_uppercase(e.text))>> \o UppercaseFrom(events, i + 1, ignore)
         ELSE IF e.kind = "Start" /\ e.tag.name \in UppercaseIgnoredTags
         THEN <<e>> \o UppercaseFrom(events, i + 1, ignore + 1)
         ELSE IF e.kind = "End" /\ e.tag.name \in UppercaseIgnoredTags
         THEN <<e>> \o UppercaseFrom(events, i + 1, ignore - 1)
         ELSE <<e>> \o UppercaseFrom(events, i + 1, ignore)

make_uppercase(events) == UppercaseFrom(events, 1, 0)

\* BookEventHelper::wrap_division
wrap_division(bevents, role) == <<BeginSemantic(role)>> \o bevents \o <<EndSemantic(role)>>

\* --------------------------------------------------- Division Classifier
HeaderLevels(events) ==
    {events[i].tag.level : i \in {j \in 1..Len(events) : IsStart(events[j], "Heading")}}

\* a classifier that never selects the Parts scheme, which C4 rules out
StepLevel_get_NoParts(events) == "TopToChapter"

\* StepLevel::get
StepLevel_get(events) ==
    LET has_l1_headers == 1 \in HeaderLevels(events)
        has_l2_headers == 2 \in HeaderLevels(events)
        has_ln_headers == HeaderLevels(events) \ {1, 2} # {}
    IN  CASE has_l1_headers /\ has_l2_headers -> "TopToParts"
          [] has_l1_headers /\ ~has_l2_headers /\ has_ln_headers -> "TopToChapter"
          [] ~has_l1_headers /\ has_l2_headers /\ has_ln_headers -> "TopToParts"
          [] ~has_l1_headers /\ has_l2_headers /\ ~has_ln_headers -> "TopToChapter"
          [] ~has_l1_headers /\ ~has_l2_headers /\ ~has_ln_headers -> "TopToChapter"
          [] has_l1_headers /\ ~has_l2_headers /\ ~has_ln_headers -> "TopToChapter"
          [] ~has_l1_headers /\ ~has_l2_headers /\ has_ln_headers -> "TopToChapter"

ChapterLabel(n) == DivisionHeaderLabel(get_label("Chapter"), Some(n), "Arabic")

PartLabel(n) == DivisionHeaderLabel(get_label("Part"), Some(n), "Roman")

CloseChapter(in_chapter) == IF in_chapter THEN <<EndSemantic("Chapter")>> ELSE <<>>

\* a chapter counter restarted by each Part heading, which C3 rules out
ChapterCountAtPart_Reset(chapter_count) == 0

\* the chapter counter after a Part heading: it is left alone
ChapterCountAtPart(chapter_count) == chapter_count

\* the loop variables of divide_into_sections
DivideState(in_chapter, part_count, chapter_count) ==
    [in_chapter |-> in_chapter, part_count |-> part_count, chapter_count |-> chapter_count]

\* one pass of the loop of divide_into_sections over event e: the events pushed
\* and the loop variables afterwards
DivideStep(e, step_level, s) ==
    IF step_level = "TopToChapter" THEN
        IF IsStartHeading(e, 1)
        THEN [out |-> CloseChapter(s.in_chapter)
                      \o <<BeginSemantic("Chapter"), BeginDivisionHeader(FALSE),
                           ChapterLabel((s.chapter_count + 1) % U8)>>,
              next |-> DivideState(TRUE, s.part_count, (s.chapter_count + 1) % U8)]
        ELSE IF IsEndHeading(e, 1)
        THEN [out |-> <<EndDivisionHeader(FALSE)>>, next |-> s]
        ELSE IF IsStart(e, "Heading")
        THEN [out |-> <<BEvent(Start(Heading(e.tag.level + 1)))>>, next |-> s]
        ELSE IF IsEnd(e, "Heading")
        THEN [out |-> <<BEvent(End(Heading(e.tag.level + 1)))>>, next |-> s]
        ELSE [out |-> <<BEvent(e)>>, next |-> s]
    ELSE
        IF IsStartHeading(e, 1)
        THEN [out |-> CloseChapter(s.in_chapter)
                      \o <<BeginSemantic("Part"), BeginDivisionHeader(FALSE),
                           PartLabel((s.part_count + 1) % U8)>>,
              next |-> DivideState(FALSE, (s.part_count + 1) % U8,
                                   ChapterCountAtPart(s.chapter_count))]
        ELSE IF IsEndHeading(e, 1)
        THEN [out |-> <<EndDivisionHeader(FALSE), EndSemantic("Part")>>, next |-> s]
        ELSE IF IsStartHeading(e, 2)
        THEN [out |-> CloseChapter(s.in_chapter)
                      \o <<BeginSemantic("Chapter"), BeginDivisionHeader(FALSE),
                           ChapterLabel((s.chapter_count + 1) % U8)>>,
              next |-> DivideState(TRUE, s.part_count, (s.chapter_count + 1) % U8)]
        ELSE IF IsEndHeading(e, 2)
        THEN [out |-> <<EndDivisionHeader(FALSE)>>, next |-> s]
        ELSE IF IsStart(e, "Heading")
        THEN [out |-> <<BEvent(Start(Heading(e.tag.level + 2)))>>, next |-> s]
        ELSE IF IsEnd(e, "Heading")
        THEN [out |-> <<BEvent(End(Heading(e.tag.level + 2)))>>, next |-> s]
        ELSE [out |-> <<BEvent(e)>>, next |-> s]

\* the loop of divide_into_sections over events[lo..hi], entered with the loop
\* variables s: the events pushed and the loop variables afterwards (the range
\* is halved, the second half entered with what the first half leaves)
RECURSIVE DivideFrom(_, _, _, _, _)
DivideFrom(events, lo, hi, step_level, s) ==
    IF lo > hi THEN [out |-> <<>>, next |-> s]
    ELSE IF lo = hi THEN DivideStep(events[lo], step_level, s)
    ELSE LET mid == (lo + hi) \div 2
             a == DivideFrom(events, lo, mid, step_level, s)
             b == DivideFrom(events, mid + 1, hi, step_level, a.next)
         IN  [out |-> a.out \o b.out, next |-> b.next]

divide_into_sections(events) ==
    LET d == DivideFrom(events, 1, Len(events), StepLevel_get(events), DivideState(FALSE, 0, 0))
    IN  d.out \o CloseChapter(d.next.in_chapter)

\* --------------------------------------------------------------- Metadata
\* Metadata::new(title); the fields that no modelled operation sets are left out
NewMetadata(title) ==
    [title |-> title, shorttitle |-> None, subtitle |-> None,
     authors |-> <<>>, foreword_authors |-> <<>>, introduction_authors |-> <<>>,
     afterword_authors |-> <<>>, introduction_and_notes_authors |-> <<>>]

\* Metadata::default(), what std::mem::take leaves behind
DefaultMetadata == NewMetadata(<<>>)

get_short_title(m) == IF m.shorttitle.some THEN m.shorttitle.val ELSE m.title

has_no_introduction_authors(m) ==
    m.introduction_authors = <<>> /\ m.introduction_and_notes_authors = <<>>

ContributorEntry(role, names) == IF names = <<>> THEN <<>> ELSE <<[role |-> role, names |-> names]>>

get_titlepage_contributors(m) ==
    ContributorEntry("Author", m.authors)
    \o ContributorEntry("ForewordAuthor", m.foreword_authors)
    \o ContributorEntry("AfterwordAuthor", m.afterword_authors)
    \o ContributorEntry("IntroductionAuthor", m.introduction_authors)
    \o ContributorEntry("IntroductionAndNotesAuthor", m.introduction_and_notes_authors)

\* the tokens of a markup-free string: one Text event
StrTokens(str) == IF str = <<>> THEN <<>> ELSE <<Text(str)>>

T_FirstPublished == <<"F","i","r","s","t"," ","p","u","b","l","i","s","h","e","d">>

T_Copyright == <<"C","o","p","y","r","i","g","h","t">>

\* get_copyright_page_text as the parser tokenises it: a copyright line when
\* there are authors, then the publication statement (year and names left out)
CopyrightPageTokens(m) ==
    (IF m.authors = <<>> THEN <<>>
     ELSE <<Start(Tag("Paragraph")), Text(T_Copyright), End(Tag("Paragraph")), [kind |-> "Rule"]>>)
    \o <<Start(Tag("Paragraph")), Text(T_FirstPublished), End(Tag("Paragraph"))>>

\* ---------------------------------------------------------- BookSrcBuilder
\* BookSrcBuilder::new(title)
NewBuilder(title) ==
    [halftitle |-> <<>>, copyright_page |-> <<>>, dedication |-> <<>>,
     forewords |-> <<>>, epigraphs |-> <<>>, introductions |-> <<>>,
     prefaces |-> <<>>, mainmatter |-> <<>>, appendices |-> <<>>,
     afterwords |-> <<>>, colophon |-> <<>>, acknowledgements |-> <<>>,
     metadata |-> NewMetadata(title),
     appendices_count |-> 0, epigraph_count |-> 0,
     no_titlepage |-> FALSE, no_copyrightpage |-> FALSE, no_halftitle |-> FALSE,
     image_dirs |-> {}]

add_copyright_page(b, src, title) ==
    LET events == parse(make_paragraphs_unindented(parse_plain(src)))
    IN  IF title.some
        THEN [b EXCEPT !.copyright_page =
                <<BeginSemantic("Copyrightpage"),
                  BEvent(Start(Tag("UnindentedParagraph"))),
                  BEvent(Start(Tag("Sans"))), BEvent(Start(Tag("Strong")))>>
                \o parse(make_uppercase(parse_inline_plain(title.val)))
                \o <<BEvent(End(Tag("Strong"))), BEvent(End(Tag("Sans"))),
                     BEvent(End(Tag("UnindentedParagraph")))>>
                \o events
                \o <<EndSemantic("Copyrightpage")>>]
        ELSE [b EXCEPT !.copyright_page = wrap_division(events, "Copyrightpage")]

set_halftitle(b, halftitle) ==
    [b EXCEPT !.halftitle =
        wrap_division(<<BeginDivisionHeader(FALSE)>>
                      \o parse(make_uppercase(parse_inline_plain(halftitle)))
                      \o <<EndDivisionHeader(FALSE)>>, "Halftitle")]

set_dedication(b, dedication) ==
    [b EXCEPT !.dedication = wrap_division(parse_inline(dedication), "Dedication")]

set_colophon(b, colophon) ==
    [b EXCEPT !.colophon =
        <<BeginSemantic("Colophon"), BeginDivisionHeader(FALSE), EndDivisionHeader(FALSE),
          BEvent(Start(Tag("UnindentedParagraph")))>>
        \o parse_inline(colophon)
        \o <<BEvent(End(Tag("UnindentedParagraph"))), EndSemantic("Colophon")>>]

\* the (title, text) pair every add_* operation starts from
SplitTitle(text, title) ==
    IF ~title.some
    THEN LET r == remove_initial_title(parse_plain(text))
         IN  [title |-> IF r.title.some THEN Some(ToBookEvents(r.title.val)) ELSE None,
              text  |-> ToBookEvents(r.rest)]
    ELSE [title |-> Some(parse_inline(title.val)), text |-> parse(text)]

OptEvents(o) == IF o.some THEN o.val ELSE <<>>

\* the events built by add_authored_ancillary_text! and add_unauthored_ancillary_text!
\* (the latter with no authors) and by add_appendix (with its own label)
DivisionEvents(role, text, title, label, authors) ==
    LET st == SplitTitle(text, title)
    IN  <<BeginSemantic(role), BeginDivisionHeader(FALSE)>>
        \o OptEvents(st.title)
        \o label
        \o (IF authors # <<>> THEN <<DivisionAuthors(authors)>> ELSE <<>>)
        \o <<EndDivisionHeader(FALSE)>>
        \o st.text
        \o <<EndSemantic(role)>>

RoleLabel(role) ==
    IF get_label(role).some
    THEN <<DivisionHeaderLabel(Some(get_label(role).val), None, "Arabic")>>
    ELSE <<>>

add_foreword(b, text, title, authors) ==
    [b EXCEPT !.metadata.foreword_authors = @ \o authors,
              !.forewords = @ \o DivisionEvents("Foreword", text, title, RoleLabel("Foreword"), authors)]

add_afterword(b, text, title, authors) ==
    [b EXCEPT !.metadata.afterword_authors = @ \o authors,
              !.afterwords = @ \o DivisionEvents("Afterword", text, title, RoleLabel("Afterword"), authors)]

add_introduction(b, text, title, authors) ==
    [b EXCEPT !.metadata.introduction_authors = @ \o authors,
              !.introductions = @ \o DivisionEvents("Introduction", text, title,
                                                   RoleLabel("Introduction"), authors)]

add_preface(b, text, title) ==
    [b EXCEPT !.prefaces = @ \o DivisionEvents("Preface", text, title, RoleLabel("Preface"), <<>>)]

add_acknowledgements(b, text, title) ==
    [b EXCEPT !.acknowledgements =
        @ \o DivisionEvents("Acknowledgements", text, title, RoleLabel("Acknowledgements"), <<>>)]

\* an add_appendix that forgets to count, which C12 rules out
AppendicesCountAfterAdd_Unchanged(n) == n

\* self.appendices_count += 1, on a u8
AppendicesCountAfterAdd(n) == (n + 1) % U8

add_appendix(b, text, title) ==
    [b EXCEPT !.appendices =
                @ \o DivisionEvents("Appendix", text, title,
                        <<DivisionHeaderLabel(Some(get_label("Appendix").val),
                                              Some(b.appendices_count), "Letter")>>, <<>>),
              !.appendices_count = AppendicesCountAfterAdd(@)]

add_mainmatter(b, text) == [b EXCEPT !.mainmatter = @ \o parse_plain(text)]

\* the position of the first End(Paragraph), which add_epigraph unwraps
FirstParagraphEnd(events) == CHOOSE i \in 1..Len(events) :
    /\ IsEnd(events[i], "Paragraph")
    /\ \A j \in 1..(i - 1) : ~IsEnd(events[j], "Paragraph")

EpigraphText(events) ==
    IF events # <<>> /\ IsStart(events[1], "Paragraph")
    THEN [i \in 1..Len(events) |->
            IF i = 1 THEN Start(Tag("UnindentedParagraph"))
            ELSE IF i = FirstParagraphEnd(events) THEN End(Tag("UnindentedParagraph"))
            ELSE events[i]]
    ELSE events

\* an add_epigraph that forgets to count, which C6 rules out
EpigraphCountAfterAdd_Unchanged(n) == n

\* self.epigraph_count += 1
EpigraphCountAfterAdd(n) == n + 1

add_epigraph(b, text, source) ==
    [b EXCEPT !.epigraphs =
                @ \o <<BeginSemantic("Epigraph"), Marker("BeginEpigraphText")>>
                  \o parse(EpigraphText(parse_plain(text)))
                  \o <<Marker("EndEpigraphText")>>
                  \o (IF source.some
                      THEN <<Marker("BeginEpigraphSource")>> \o parse_inline(source.val)
                           \o <<Marker("EndEpigraphSource")>>
                      ELSE <<>>)
                  \o <<EndSemantic("Epigraph")>>,
              !.epigraph_count = EpigraphCountAfterAdd(@)]

\* the source line add_explicit_epigraph formats, as the parser tokenises it
ExplicitSource(author, title_of_source, quote_title) ==
    LET title  == IF title_of_source.some
                  THEN (IF quote_title
                        THEN <<Text(<<"lsquo">> \o title_of_source.val \o <<"rsquo">>)>>
                        ELSE <<Start(Tag("Emphasis")), Text(title_of_source.val),
                               End(Tag("Emphasis"))>>)
                  ELSE <<>>
        name   == IF author.some
                  THEN <<Start(Tag("SmallCaps")), Text(author.val), End(Tag("SmallCaps"))>>
                  ELSE <<>>
        sep    == IF title_of_source.some /\ author.some THEN <<Text(<<",", " ">>)>> ELSE <<>>
        source == name \o sep \o title
    IN  IF source = <<>> THEN None ELSE Some(source)

add_explicit_epigraph(b, text, author, title_of_source, quote_title) ==
    add_epigraph(b, text, ExplicitSource(author, title_of_source, quote_title))

\* -------------------------------------------------------- Stream Assembler
get_titlepage(m) ==
    <<Marker("BeginTitlePage"), Marker("BeginTitlePageTitle")>>
    \o parse_inline(StrTokens(m.title))
    \o <<Marker("EndTitlePageTitle")>>
    \o (IF m.subtitle.some
        THEN <<Marker("BeginTitlePageSubTitle")>> \o parse_inline(StrTokens(m.subtitle.val))
             \o <<Marker("EndTitlePageSubTitle")>>
        ELSE <<>>)
    \o <<TitlePageContributors(get_titlepage_contributors(m)), Marker("EndTitlePage")>>

\* the builder after the "set some missing elements" steps of process()
WithGeneratedPages(b) ==
    LET b1 == IF ~b.no_halftitle /\ b.halftitle = <<>>
              THEN set_halftitle(b, StrTokens(get_short_title(b.metadata)))
              ELSE b
    IN  IF ~b1.no_copyrightpage /\ b1.copyright_page = <<>>
        THEN add_copyright_page(b1, CopyrightPageTokens(b1.metadata),
                                Some(StrTokens(get_short_title(b1.metadata))))
        ELSE b1

\* the frontmatter divisions after the copyright page, in the order of process()
FrontDivisions(b) ==
    b.dedication \o b.forewords
    \o (IF has_no_introduction_authors(b.metadata)
        THEN b.epigraphs \o b.introductions
        ELSE b.introductions \o b.epigraphs)
    \o b.prefaces

\* a backmatter that opens with the afterwords, which C10 rules out
BackDivisions_AfterwordsFirst(b) ==
    b.afterwords \o b.appendices \o b.acknowledgements \o b.colophon

\* the backmatter divisions, in the order of process()
BackDivisions(b) == b.appendices \o b.afterwords \o b.acknowledgements \o b.colophon

\* a test that looks at the appendices alone, which C11 rules out
HasBackmatter_AppendicesOnly(b) == b.appendices # <<>>

HasBackmatter(b) ==
    b.appendices # <<>> \/ b.afterwords # <<>> \/ b.acknowledgements # <<>> \/ b.colophon # <<>>

\* a BeginBackmatter pushed twice and unconditionally, which C2 rules out
BackmatterMarker_Always(b) == <<Marker("BeginBackmatter"), Marker("BeginBackmatter")>>

BackmatterMarker(b) == IF HasBackmatter(b) THEN <<Marker("BeginBackmatter")>> ELSE <<>>

\* a mainmatter whose last Chapter is left open, which C1 rules out
MainmatterSections_Unclosed(events) ==
    LET d == divide_into_sections(events)
    IN  IF d # <<>> /\ d[Len(d)] = EndSemantic("Chapter") THEN SubSeq(d, 1, Len(d) - 1) ELSE d

MainmatterSections(events) == divide_into_sections(events)

\* the contents vector built by process(); no modelled token is an image, so
\* replace_missing_image_paths changes nothing
ProcessContents(b0) ==
    LET titlepage == IF b0.no_titlepage THEN <<>> ELSE get_titlepage(b0.metadata)
        b == WithGeneratedPages(b0)
    IN  <<Marker("BeginFrontmatter")>>
        \o (IF ~b.no_halftitle THEN b.halftitle ELSE <<>>)
        \o titlepage
        \o (IF ~b.no_copyrightpage THEN b.copyright_page ELSE <<>>)
        \o FrontDivisions(b)
        \o <<Marker("BeginMainmatter")>>
        \o MainmatterSections(b.mainmatter)
        \o BackmatterMarker(b)
        \o BackDivisions(b)

\* the BookSrc returned by process()
\* the files that exist: a markdown file, a LaTeX file, a file without an
\* extension and an image, all in the directory "book"
ExistingFiles ==
    { [dir |-> "book", stem |-> "ch", ext |-> "md"],
      [dir |-> "book", stem |-> "ch", ext |-> "tex"],
      [dir |-> "book", stem |-> "ch", ext |-> ""],
      [dir |-> "book", stem |-> "a", ext |-> "png"] }

\* replace_missing_image_paths: the destination of an image that does not
\* exist is replaced by the path it has in one of the image directories, if it
\* exists there; otherwise it is reported and left as it is
replace_missing_image_paths(contents, image_dirs) ==
    [i \in 1..Len(contents) |->
        LET be == contents[i]
        IN  IF be.type = "Event" /\ be.event.kind \in {"Start", "End"}
               /\ be.event.tag.name = "Image" /\ be.event.tag.dest \notin ExistingFiles
            THEN LET p    == be.event.tag.dest
                     dirs == {d \in image_dirs : [p EXCEPT !.dir = d] \in ExistingFiles}
                 IN  IF dirs = {} THEN be
                     ELSE [be EXCEPT !.event.tag.dest = [p EXCEPT !.dir = CHOOSE d \in dirs : TRUE]]
            ELSE be]

ProcessResult(b) ==
    [metadata |-> b.metadata,
     contents |-> replace_missing_image_paths(ProcessContents(b), b.image_dirs),
     expected_epigraph_count |-> b.epigraph_count,
     expected_appendices_count |-> b.appendices_count]

\* the builder process() leaves behind: every appended buffer is drained,
\* mainmatter and metadata are taken, the image directories are drained,
\* counters and flags are kept
BuilderAfterProcess(b0) ==
    LET b == WithGeneratedPages(b0)
    IN  [b EXCEPT !.halftitle = IF b.no_halftitle THEN @ ELSE <<>>,
                  !.copyright_page = IF b.no_copyrightpage THEN @ ELSE <<>>,
                  !.dedication = <<>>, !.forewords = <<>>, !.epigraphs = <<>>,
                  !.introductions = <<>>, !.prefaces = <<>>, !.mainmatter = <<>>,
                  !.appendices = <<>>, !.afterwords = <<>>, !.colophon = <<>>,
                  !.acknowledgements = <<>>, !.metadata = DefaultMetadata,
                  !.image_dirs = {}]

\* BookSrc::default()
DefaultBookSrc ==
    [metadata |-> DefaultMetadata, contents |-> <<>>,
     expected_epigraph_count |-> 0, expected_appendices_count |-> 0]

\* -------------------------------------------------- Collation Combinators
\* the index of the first event of the given type at or after i, or Len + 1
\* when the iterator runs out
FirstFrom(contents, i, type) ==
    LET found == {k \in i..Len(contents) : contents[k].type = type}
    IN  IF found = {} THEN Len(contents) + 1
        ELSE CHOOSE k \in found : \A j \in found : k <= j

\* the plain events among contents[from..to]
PlainEvents(contents, from, to) ==
    LET idx == SelectSeq([k \in 1..(to - from + 1) |-> from + k - 1],
                         LAMBDA k : contents[k].type = "Event")
    IN  [k \in 1..Len(idx) |-> contents[idx[k]].event]

\* the last element of a sequence of indices, as an Option
LastOf(idx) == IF idx = <<>> THEN None ELSE Some(idx[Len(idx)])

\* collate_division_header, called with the cursor at i, just after a
\* BeginDivisionHeader(is_starred); next is the cursor it leaves behind
collate_division_header(contents, i, is_starred) ==
    LET end    == FirstFrom(contents, i, "EndDivisionHeader")
        span   == [k \in 1..(end - i) |-> i + k - 1]
        labels == SelectSeq(span, LAMBDA k : contents[k].type = "DivisionHeaderLabel")
        auths  == SelectSeq(span, LAMBDA k : contents[k].type = "DivisionAuthors"
                                             /\ contents[k].names # <<>>)
        text   == PlainEvents(contents, i, end - 1)
        label  == LastOf(labels)
        author == LastOf(auths)
    IN  [text |-> IF text = <<>> THEN None ELSE Some(text),
         label_text |-> IF label.some THEN contents[label.val].text ELSE None,
         label_number |-> IF label.some THEN contents[label.val].number ELSE None,
         label_number_format |->
            IF label.some THEN Some(contents[label.val].number_format) ELSE None,
         authors |-> IF author.some THEN Some(contents[author.val].names) ELSE None,
         is_starred |-> is_starred,
         next |-> IF end > Len(contents) THEN end ELSE end + 1]

\* a collated title left as written, which C8 rules out
TitlePageTitle_AsWritten(events) == events

\* the title of a collated titlepage: make_uppercase
TitlePageTitle(events) == make_uppercase(events)

\* the indices in from..to that lie inside a Begin../End.. pair of the titlepage
RECURSIVE InsideFrom(_, _, _, _, _, _)
InsideFrom(contents, i, to, begin, end, inside) ==
    IF i > to THEN <<>>
    ELSE IF contents[i].type = begin THEN InsideFrom(contents, i + 1, to, begin, end, TRUE)
    ELSE IF contents[i].type = end THEN InsideFrom(contents, i + 1, to, begin, end, FALSE)
    ELSE (IF inside /\ contents[i].type = "Event" THEN <<contents[i].event>> ELSE <<>>)
         \o InsideFrom(contents, i + 1, to, begin, end, inside)

\* collate_titlepage, called with the cursor at i, just after BeginTitlePage.
\* A title event is taken before a subtitle event, as in_title is tested first;
\* the builder never nests the two regions
collate_titlepage(contents, i) ==
    LET end   == FirstFrom(contents, i, "EndTitlePage")
        title == InsideFrom(contents, i, end - 1, "BeginTitlePageTitle",
                            "EndTitlePageTitle", FALSE)
        sub   == InsideFrom(contents, i, end - 1, "BeginTitlePageSubTitle",
                            "EndTitlePageSubTitle", FALSE)
        contr == SelectSeq([k \in 1..(end - i) |-> i + k - 1],
                           LAMBDA k : contents[k].type = "TitlePageContributors")
    IN  [title |-> TitlePageTitle(title),
         subtitle |-> IF sub = <<>> THEN None ELSE Some(make_uppercase(sub)),
         contributors |-> IF contr = <<>> THEN None
                          ELSE Some(contents[contr[Len(contr)]].contributors),
         next |-> IF end > Len(contents) THEN end ELSE end + 1]

\* ------------------------------------------------------- CollatedHeader
TitleTags == {"Emphasis", "Strong", "Subscript", "Superscript"}

\* MarkerHelper::filter_title_events
filter_title_events(events) ==
    SelectSeq(events, LAMBDA e : e.kind = "Text"
                                 \/ (e.kind \in {"Start", "End"} /\ e.tag.name \in TitleTags))

HtmlTagName(n) ==
    CASE n = "Emphasis" -> <<"e","m">>
      [] n = "Strong" -> <<"s","t","r","o","n","g">>
      [] n = "Subscript" -> <<"s","u","b">>
      [] n = "Superscript" -> <<"s","u","p">>

HtmlPiece(e) ==
    IF e.kind = "Text" THEN escape_to_html(e.text)
    ELSE IF e.kind = "Start" THEN <<"<">> \o HtmlTagName(e.tag.name) \o <<">">>
    ELSE <<"<", "/">> \o HtmlTagName(e.tag.name) \o <<">">>

\* write_title_text of EpubMarker: the empty string when no text was seen
write_title_text(events) ==
    LET kept == filter_title_events(events)
    IN  IF \E k \in 1..Len(kept) : kept[k].kind = "Text"
        THEN Flatten([k \in 1..Len(kept) |-> HtmlPiece(kept[k])])
        ELSE <<>>

get_title_text(h) ==
    IF h.text.some /\ write_title_text(h.text.val) # <<>>
    THEN Some(write_title_text(h.text.val))
    ELSE None

get_label_text(h) == IF h.label_text.some THEN Some(escape_to_html(h.label_text.val)) ELSE None

\* number_to_roman
RECURSIVE number_to_roman(_)
number_to_roman(n) ==
    IF n >= 100 THEN <<"C">> \o number_to_roman(n - 100)
    ELSE IF n >= 90 THEN <<"X","C">> \o number_to_roman(n - 90)
    ELSE IF n >= 50 THEN <<"L">> \o number_to_roman(n - 50)
    ELSE IF n >= 40 THEN <<"X","L">> \o number_to_roman(n - 40)
    ELSE IF n >= 10 THEN <<"X">> \o number_to_roman(n - 10)
    ELSE IF n >= 9 THEN <<"I","X">> \o number_to_roman(n - 9)
    ELSE IF n >= 5 THEN <<"V">> \o number_to_roman(n - 5)
    ELSE IF n >= 4 THEN <<"I","V">> \o number_to_roman(n - 4)
    ELSE IF n >= 1 THEN <<"I">> \o number_to_roman(n - 1)
    ELSE <<>>

\* number_to_words, for the numbers up to twelve
number_to_words(n) ==
    <<<<"Z","E","R","O">>, <<"O","N","E">>, <<"T","W","O">>, <<"T","H","R","E","E">>,
      <<"F","O","U","R">>, <<"F","I","V","E">>, <<"S","I","X">>, <<"S","E","V","E","N">>,
      <<"E","I","G","H","T">>, <<"N","I","N","E">>, <<"T","E","N">>,
      <<"E","L","E","V","E","N">>, <<"T","W","E","L","V","E">>>>[n + 1]

\* number_to_letter(n), or format!("{}", n) when it is an error
LetterOrNumber(n) == IF n > 25 THEN FormatArabic(n) ELSE <<Uppers[n + 1]>>

get_label_number(h) ==
    IF ~h.label_number.some THEN None
    ELSE LET n == h.label_number.val
             f == h.label_number_format
         IN  IF ~f.some \/ f.val = "Arabic" THEN Some(FormatArabic(n))
             ELSE IF f.val = "Roman" THEN Some(number_to_roman(n))
             ELSE IF f.val = "Words" THEN Some(number_to_words(n))
             ELSE Some(LetterOrNumber(n))

get_joined_label(h) ==
    LET label_number == get_label_number(h)
        label_text   == IF h.is_starred THEN None ELSE get_label_text(h)
    IN  IF label_text.some /\ label_number.some
        THEN Some(label_text.val \o <<" ">> \o label_number.val)
        ELSE IF label_text.some THEN label_text
        ELSE IF label_number.some THEN label_number
        ELSE None

\* a reconciliation that keeps the label beside a title that repeats it, which
\* C7 rules out
reconcile_joined_label_and_title_KeepLabel(h) ==
    LET label == get_joined_label(h)
        title == get_title_text(h)
    IN  IF ~label.some /\ ~title.some THEN None
        ELSE IF label.some /\ ~title.some THEN Some([label |-> None, title |-> label])
        ELSE IF label.some /\ title.some
        THEN Some([label |-> label, title |-> title])
        ELSE Some([label |-> None, title |-> title])

\* reconcile_joined_label_and_title: Option<(Option label, Option title)>
reconcile_joined_label_and_title(h) ==
    LET label == get_joined_label(h)
        title == get_title_text(h)
    IN  IF ~label.some /\ ~title.some THEN None
        ELSE IF label.some /\ ~title.some THEN Some([label |-> None, title |-> label])
        ELSE IF label.some /\ title.some
        THEN (IF starts_with(to_lowercase(title.val), to_lowercase(label.val))
              THEN Some([label |-> None, title |-> title])
              ELSE Some([label |-> label, title |-> title]))
        ELSE Some([label |-> None, title |-> title])

\* get_authors: (names, Option<last name>), every name escaped
get_authors(h) ==
    IF ~h.authors.some \/ h.authors.val = <<>> THEN None
    ELSE LET names == [k \in 1..Len(h.authors.val) |-> escape_to_html(h.authors.val[k])]
             n == Len(names)
         IN  IF n = 1 THEN Some([names |-> names[1], last |-> None])
             ELSE IF n = 2 THEN Some([names |-> names[1], last |-> Some(names[2])])
             ELSE Some([names |-> names[1] \o Flatten([k \in 1..(n - 2) |->
                                                        <<",", " ">> \o names[k + 1]]),
                        last |-> Some(names[n])])

\* XhtmlWriter::write_division_header: the elements pushed to the target, each
\* by its class (or "heading" for the h1..h6 element) and its text
write_division_header(h) ==
    LET label_and_title == reconcile_joined_label_and_title(h)
        authors == get_authors(h)
    IN  IF ~label_and_title.some THEN <<>>
        ELSE (IF label_and_title.val.label.some
              THEN <<[el |-> "division_label",
                      text |-> to_uppercase(label_and_title.val.label.val)]>>
              ELSE <<>>)
             \o (IF label_and_title.val.title.some
                 THEN <<[el |-> "heading", text |-> label_and_title.val.title.val]>>
                 ELSE <<>>)
             \o (IF authors.some
                 THEN <<[el |-> "division_authors",
                         text |-> IF authors.val.last.some
                                  THEN to_uppercase(authors.val.names)
                                       \o <<" ","a","n","d"," ">>
                                       \o to_uppercase(authors.val.last.val)
                                  ELSE to_uppercase(authors.val.names)]>>
                 ELSE <<>>)

\* -------------------------------------------------------- Header Formatter
HeaderFormats == {"NumberAlone", "TitleAlone", "LabelAndNumberAndTitle", "LabelAlone",
                  "NumberAndTitle"}

\* TextHeaderOptions::default()
DefaultHeaderOptions ==
    [chapter_header_format |-> "LabelAndNumberAndTitle",
     part_header_format |-> "LabelAndNumberAndTitle",
     chapter_number_format |-> "Arabic",
     part_number_format |-> "Roman"]

\* the flags of the first loop of change_headers
HeaderFlags(in_chapter, in_part, in_chapter_header, in_part_header) ==
    [in_chapter |-> in_chapter, in_part |-> in_part,
     in_chapter_header |-> in_chapter_header, in_part_header |-> in_part_header]

\* a first loop that takes every division header for a chapter header, which
\* C14 rules out
HeaderScanStep_AnyHeader(be, f) ==
    IF be.type = "BeginDivisionHeader"
    THEN [out |-> <<"none">>, next |-> [f EXCEPT !.in_chapter_header = TRUE]]
    ELSE IF be.type = "EndDivisionHeader"
    THEN [out |-> <<"none">>, next |-> [f EXCEPT !.in_chapter_header = FALSE]]
    ELSE [out |-> <<IF be.type = "DivisionHeaderLabel" /\ f.in_chapter_header
                    THEN "chapter_labels"
                    ELSE IF IsText(be) /\ f.in_chapter_header THEN "chapter_header_text"
                    ELSE "none">>,
          next |-> f]

\* one pass of the first loop of change_headers: the vector the event is pushed
\* to, if any, and the flags afterwards; the arms are tried in the order of the
\* match
HeaderScanStep(be, f) ==
    IF be = BeginSemantic("Chapter")
    THEN [out |-> <<"none">>, next |-> [f EXCEPT !.in_chapter = TRUE]]
    ELSE IF be = EndSemantic("Chapter")
    THEN [out |-> <<"none">>, next |-> [f EXCEPT !.in_chapter = FALSE]]
    ELSE IF be = BeginSemantic("Part")
    THEN [out |-> <<"none">>, next |-> [f EXCEPT !.in_part = TRUE]]
    ELSE IF be = EndSemantic("Part")
    THEN [out |-> <<"none">>, next |-> [f EXCEPT !.in_part = FALSE]]
    ELSE IF be.type = "BeginDivisionHeader" /\ f.in_chapter
    THEN [out |-> <<"none">>, next |-> [f EXCEPT !.in_chapter_header = TRUE]]
    ELSE IF be.type = "BeginDivisionHeader" /\ f.in_part
    THEN [out |-> <<"none">>, next |-> [f EXCEPT !.in_part_header = TRUE]]
    ELSE IF be.type = "EndDivisionHeader" /\ f.in_chapter
    THEN [out |-> <<"none">>, next |-> [f EXCEPT !.in_chapter_header = FALSE]]
    ELSE IF be.type = "EndDivisionHeader" /\ f.in_part
    THEN [out |-> <<"none">>, next |-> [f EXCEPT !.in_part_header = FALSE]]
    ELSE [out |-> <<IF be.type = "DivisionHeaderLabel" /\ f.in_chapter_header
                    THEN "chapter_labels"
                    ELSE IF be.type = "DivisionHeaderLabel" /\ f.in_part_header
                    THEN "part_labels"
                    ELSE IF IsText(be) /\ f.in_chapter_header THEN "chapter_header_text"
                    ELSE IF IsText(be) /\ f.in_part_header THEN "part_header_text"
                    ELSE "none">>,
          next |-> f]

\* the first loop of change_headers over contents[lo..hi], entered with flags f
RECURSIVE HeaderScan(_, _, _, _)
HeaderScan(contents, lo, hi, f) ==
    IF lo > hi THEN [out |-> <<>>, next |-> f]
    ELSE IF lo = hi THEN HeaderScanStep(contents[lo], f)
    ELSE LET mid == (lo + hi) \div 2
             a == HeaderScan(contents, lo, mid, f)
             b == HeaderScan(contents, mid + 1, hi, a.next)
         IN  [out |-> a.out \o b.out, next |-> b.next]

\* what the second match of change_headers makes of a chapter label
ChapterLabelUnder(format, n, label) ==
    CASE format = "NumberAlone" -> [label EXCEPT !.number_format = n]
      [] format = "TitleAlone" -> Null
      [] format = "LabelAndNumberAndTitle" -> [label EXCEPT !.number_format = n]
      [] format = "LabelAlone" -> [label EXCEPT !.number_format = n]
      [] format = "NumberAndTitle" -> [label EXCEPT !.number_format = n, !.text = None]

\* a TitleAlone that erases the title with the label, which C9 rules out
HeaderTextUnder_ErasedWithLabel(format, text) ==
    IF format \in {"NumberAlone", "LabelAlone", "TitleAlone"} THEN Null ELSE text

\* what the second and third match make of a Text event of a header
HeaderTextUnder(format, text) ==
    IF format \in {"NumberAlone", "LabelAlone"} THEN Null ELSE text

\* what the third match of change_headers makes of a part label
PartLabelUnder(format, n, label) ==
    CASE format = "NumberAlone" -> [label EXCEPT !.number_format = n]
      [] format = "TitleAlone" -> Null
      [] format = "LabelAndNumberAndTitle" -> [label EXCEPT !.number_format = n]
      [] format = "LabelAlone" -> [label EXCEPT !.number_format = n, !.number = None]
      [] format = "NumberAndTitle" -> [label EXCEPT !.number_format = n, !.text = None]

\* BookSrc::change_headers, on the contents
change_headers(contents, format) ==
    LET pushed == HeaderScan(contents, 1, Len(contents),
                             HeaderFlags(FALSE, FALSE, FALSE, FALSE)).out
    IN  [i \in 1..Len(contents) |->
            CASE pushed[i] = "chapter_labels" ->
                    ChapterLabelUnder(format.chapter_header_format,
                                      format.chapter_number_format, contents[i])
              [] pushed[i] = "chapter_header_text" ->
                    HeaderTextUnder(format.chapter_header_format, contents[i])
              [] pushed[i] = "part_labels" ->
                    PartLabelUnder(format.part_header_format,
                                   format.part_number_format, contents[i])
              [] pushed[i] = "part_header_text" ->
                    HeaderTextUnder(format.part_header_format, contents[i])
              [] OTHER -> contents[i]]

\* ------------------------------------------------------------ Mime types
\* MimeType::new_from_extension, on the extensions the inputs use
new_from_extension(ext) ==
    CASE ext \in {"jpg", "jpeg"} -> Some("Jpeg")
      [] ext = "png" -> Some("Png")
      [] ext = "svg" -> Some("Svg")
      [] ext \in {"md", "txt", "markdown"} -> Some("Markdown")
      [] ext \in {"tex", "latex"} -> Some("Latex")
      [] ext = "eps" -> Some("Eps")
      [] ext = "gif" -> Some("Gif")
      [] ext = "pdf" -> Some("Pdf")
      [] OTHER -> None

\* a path: its directory, its stem and its extension ("" when it has none)
Path(stem, ext) == [dir |-> "", stem |-> stem, ext |-> ext]

guess_mime(p) == IF p.ext = "" THEN None ELSE new_from_extension(p.ext)

is_epub_supported_image(p) ==
    guess_mime(p).some /\ guess_mime(p).val \in {"Png", "Jpeg", "Svg", "Gif"}

is_latex_supported_image(p) ==
    guess_mime(p).some /\ guess_mime(p).val \in {"Png", "Jpeg", "Eps", "Pdf"}

is_pdf(p) == guess_mime(p) = Some("Pdf")

is_svg(p) == guess_mime(p) = Some("Svg")

is_markdown(p) == guess_mime(p) = Some("Markdown")

\* temp_file_path(Some("bookbinder"), ext) of data converted from the file p
TempFilePath(p, ext) == [dir |-> "tmp/bookbinder", stem |-> p.stem, ext |-> ext]

\* Tag::Image with its destination
Image(dest) == [name |-> "Image", dest |-> dest]

IsStartImage(be) == be.type = "Event" /\ IsStart(be.event, "Image")

IsEndImage(be) == be.type = "Event" /\ IsEnd(be.event, "Image")

\* ------------------------------------------------------- EPUB preprocess
FootnoteDefinition(marker) == [name |-> "FootnoteDefinition", marker |-> marker]

FootnoteReference(marker) == [kind |-> "FootnoteReference", marker |-> marker]

RenderingError(kind, path) == [kind |-> kind, path |-> path]

\* the locals of preprocess at its entry; markers counts the Uuid::new_v4
\* markers drawn so far, each of which is distinct from the others
PreprocessState ==
    [footnotes |-> <<>>, current_footnote |-> <<>>, in_footnote |-> FALSE,
     has_parts |-> FALSE, changed_image_dests |-> {}, markers |-> 0, err |-> None]

\* one pass of the loop of preprocess: the events pushed and the locals
\* afterwards; the arms are tried in the order of the match, and nothing
\* happens once an error was returned. pdf is what reading and converting a
\* PDF image comes to: "ok", "missing" or "conversion_error"
PreprocessStep(be, s, pdf) ==
    IF s.err.some THEN [out |-> <<>>, next |-> s]
    ELSE IF be = BeginSemantic("Part")
    THEN [out |-> <<be>>, next |-> [s EXCEPT !.has_parts = TRUE]]
    ELSE IF be.type = "EndSemantic"
    THEN [out |-> s.footnotes \o <<be>>, next |-> [s EXCEPT !.footnotes = <<>>]]
    ELSE IF be.type = "Event" /\ IsStart(be.event, "FlattenedFootnote")
    THEN [out |-> <<>>, next |-> [s EXCEPT !.in_footnote = TRUE]]
    ELSE IF be.type = "Event" /\ IsEnd(be.event, "FlattenedFootnote")
    THEN LET marker == s.markers + 1
         IN  [out |-> <<BEvent(FootnoteReference(marker))>>,
              next |-> [s EXCEPT
                          !.footnotes = @ \o <<BEvent(Start(FootnoteDefinition(marker)))>>
                                          \o s.current_footnote
                                          \o <<BEvent(End(FootnoteDefinition(marker)))>>,
                          !.current_footnote = <<>>,
                          !.in_footnote = FALSE,
                          !.markers = marker]]
    ELSE IF IsEndImage(be)
    THEN IF be.event.tag.dest \in s.changed_image_dests
         THEN [out |-> <<BEvent(End(Image(TempFilePath(be.event.tag.dest, "svg"))))>>,
               next |-> [s EXCEPT !.changed_image_dests = @ \ {be.event.tag.dest}]]
         ELSE [out |-> <<be>>, next |-> s]
    ELSE IF IsStartImage(be)
    THEN LET image_path == be.event.tag.dest
         IN  IF is_epub_supported_image(image_path)
             THEN [out |-> <<be>>, next |-> s]
             ELSE IF is_pdf(image_path)
             THEN CASE pdf = "missing" ->
                         [out |-> <<>>,
                          next |-> [s EXCEPT !.err =
                                      Some(RenderingError("MissingImage", image_path))]]
                    [] pdf = "conversion_error" ->
                         [out |-> <<>>,
                          next |-> [s EXCEPT !.err =
                                      Some(RenderingError("ImageConversionError", image_path))]]
                    [] pdf = "ok" ->
                         [out |-> <<BEvent(Start(Image(TempFilePath(image_path, "svg"))))>>,
                          next |-> [s EXCEPT !.changed_image_dests = @ \cup {image_path}]]
             ELSE [out |-> <<>>,
                   next |-> [s EXCEPT !.err =
                               Some(RenderingError("UnsupportedImage", image_path))]]
    ELSE IF s.in_footnote
    THEN [out |-> <<>>, next |-> [s EXCEPT !.current_footnote = @ \o <<be>>]]
    ELSE [out |-> <<be>>, next |-> s]

\* the loop of preprocess over src[lo..hi], entered with the locals s
RECURSIVE PreprocessFrom(_, _, _, _, _)
PreprocessFrom(src, lo, hi, s, pdf) ==
    IF lo > hi THEN [out |-> <<>>, next |-> s]
    ELSE IF lo = hi THEN PreprocessStep(src[lo], s, pdf)
    ELSE LET mid == (lo + hi) \div 2
             a == PreprocessFrom(src, lo, mid, s, pdf)
             b == PreprocessFrom(src, mid + 1, hi, a.next, pdf)
         IN  [out |-> a.out \o b.out, next |-> b.next]

\* preprocess: Err(error), or Ok((has_parts, events))
preprocess(src, pdf) ==
    LET r == PreprocessFrom(src, 1, Len(src), PreprocessState, pdf)
    IN  IF r.next.err.some
        THEN [status |-> "Err", error |-> r.next.err.val]
        ELSE [status |-> "Ok", has_parts |-> r.next.has_parts, events |-> r.out]

\* ---------------------------------------------------------- LatexMarker
\* escape_to_latex, on the one-character targets
LatexEscapeChar(c) ==
    CASE c = "&" -> <<"\\", "&">>
      [] c = "%" -> <<"\\", "%">>
      [] c = "$" -> <<"\\", "$">>
      [] c = "#" -> <<"\\", "#">>
      [] c = "_" -> <<"\\", "_">>
      [] c = "{" -> <<"\\", "{">>
      [] c = "}" -> <<"\\", "}">>
      [] c = "[" -> <<"{", "[", "}">>
      [] c = "]" -> <<"{", "]", "}">>
      [] OTHER   -> <<c>>

escape_to_latex(s) == Flatten([i \in 1..Len(s) |-> LatexEscapeChar(s[i])])

LatexTagName(n) ==
    CASE n = "Emphasis" -> <<"\\","e","m","p","h","{">>
      [] n = "Strong" -> <<"\\","t","e","x","t","b","f","{">>
      [] n = "Subscript" -> <<"\\","t","e","x","t","s","u","b","s","c","r","i","p","t","{">>
      [] n = "Superscript" ->
            <<"\\","t","e","x","t","s","u","p","e","r","s","c","r","i","p","t","{">>

LatexTitlePiece(e) ==
    IF e.kind = "Text" THEN escape_to_latex(e.text)
    ELSE IF e.kind = "Start" THEN LatexTagName(e.tag.name)
    ELSE <<"}">>

\* write_title_text of LatexMarker: the empty string when no text was seen
latex_write_title_text(events) ==
    LET kept == filter_title_events(events)
    IN  IF \E k \in 1..Len(kept) : kept[k].kind = "Text"
        THEN Flatten([k \in 1..Len(kept) |-> LatexTitlePiece(kept[k])])
        ELSE <<>>

\* CollatedHeader<LatexMarker>::get_title_text
latex_get_title_text(h) ==
    IF h.text.some /\ latex_write_title_text(h.text.val) # <<>>
    THEN Some(latex_write_title_text(h.text.val))
    ELSE None

\* CollatedHeader<LatexMarker>::get_joined_label
latex_get_joined_label(h) ==
    LET label_number == get_label_number(h)
        label_text   == IF h.is_starred \/ ~h.label_text.some THEN None
                        ELSE Some(escape_to_latex(h.label_text.val))
    IN  IF label_text.some /\ label_number.some
        THEN Some(label_text.val \o <<" ">> \o label_number.val)
        ELSE IF label_text.some THEN label_text
        ELSE IF label_number.some THEN label_number
        ELSE None

\* CollatedHeader<LatexMarker>::reconcile_joined_label_and_title
latex_reconcile_joined_label_and_title(h) ==
    LET label == latex_get_joined_label(h)
        title == latex_get_title_text(h)
    IN  IF ~label.some /\ ~title.some THEN None
        ELSE IF label.some /\ ~title.some THEN Some([label |-> None, title |-> label])
        ELSE IF label.some /\ title.some
        THEN (IF starts_with(to_lowercase(title.val), to_lowercase(label.val))
              THEN Some([label |-> None, title |-> title])
              ELSE Some([label |-> label, title |-> title]))
        ELSE Some([label |-> None, title |-> title])

\* CollatedHeader<LatexMarker>::get_authors, joined as the writer joins them
latex_get_authors(h) ==
    IF ~h.authors.some \/ h.authors.val = <<>> THEN None
    ELSE LET names == [k \in 1..Len(h.authors.val) |-> escape_to_latex(h.authors.val[k])]
             n     == Len(names)
         IN  IF n = 1 THEN Some(names[1])
             ELSE Some(Flatten([k \in 1..(n - 1) |->
                                  IF k = 1 THEN names[k] ELSE <<",", " ">> \o names[k]])
                       \o <<" ", "a", "n", "d", " ">> \o names[n])

\* ---------------------------------------------------------- LatexWriter
\* a piece of the writer's output: the command written and its argument
Piece(cmd, arg) == [cmd |-> cmd, arg |-> arg]

\* CollatedImage::get_latex_image_path; svg is what converting an SVG image
\* to PNG and writing it comes to: "ok" or "conversion_error"
get_latex_image_path(dest, svg) ==
    IF is_latex_supported_image(dest) THEN [ok |-> TRUE, path |-> dest]
    ELSE IF is_svg(dest) /\ svg = "ok" THEN [ok |-> TRUE, path |-> TempFilePath(dest, "png")]
    ELSE [ok |-> FALSE]

\* the figure environment the writer makes of an image, if its path is usable
Figure(dest, caption, svg) ==
    LET p == get_latex_image_path(dest, svg)
    IN  IF p.ok
        THEN <<Piece("begin", "figure"), Piece("includegraphics", p.path)>>
             \o (IF caption = <<>> THEN <<>> ELSE <<Piece("caption", caption)>>)
             \o <<Piece("end", "figure")>>
        ELSE <<>>

\* the events write_plain writes nothing for
WritesNothing(e) ==
    \/ e.kind \in {"FootnoteReference", "Html", "TaskListMarker"}
    \/ /\ e.kind \in {"Start", "End"}
       /\ e.tag.name \in {"FootnoteDefinition", "FlattenedFootnote", "Table",
                          "TableHead", "TableRow", "TableCell"}
    \/ IsEnd(e, "Image")

\* LatexWriter::write_plain: what one event adds to the output
write_plain(e, svg) ==
    IF IsStart(e, "Image") THEN Figure(e.tag.dest, <<>>, svg)
    ELSE IF WritesNothing(e) THEN <<>>
    ELSE <<Piece("plain", e)>>

WritePlainAll(events, svg) == Flatten([k \in 1..Len(events) |-> write_plain(events[k], svg)])

\* the first position from i on that holds the End of the tag named n
FirstEndFrom(contents, i, n) ==
    LET found == {k \in i..Len(contents) :
                    contents[k].type = "Event" /\ IsEnd(contents[k].event, n)}
    IN  IF found = {} THEN Len(contents) + 1
        ELSE CHOOSE k \in found : \A j \in found : k <= j

\* where an iterator stands after it consumed the event at position end
After(contents, end) == IF end > Len(contents) THEN end ELSE end + 1

\* collect_plain_until_end_of_footnote, called with the cursor at i, just
\* after Start(FlattenedFootnote): it breaks at the first
\* End(FlattenedFootnote) it meets
collect_plain_until_end_of_footnote(contents, i) ==
    LET end == FirstEndFrom(contents, i, "FlattenedFootnote")
    IN  [events |-> PlainEvents(contents, i, end - 1), next |-> After(contents, end)]

\* collate_image, called with the cursor at i, just after Start(Image): it
\* breaks at the first End(Image) it meets
collate_image(contents, i) ==
    LET end == FirstEndFrom(contents, i, "Image")
    IN  [caption |-> PlainEvents(contents, i, end - 1), next |-> After(contents, end)]

\* collate_epigraph, called with the cursor at i, just after
\* BeginSemantic(Epigraph); an event is text before it is source, as in_text is
\* tested first, and the builder never nests the two regions
collate_epigraph(contents, i) ==
    LET ends == {k \in i..Len(contents) : contents[k] = EndSemantic("Epigraph")}
        end  == IF ends = {} THEN Len(contents) + 1
                ELSE CHOOSE k \in ends : \A j \in ends : k <= j
    IN  [text |-> InsideFrom(contents, i, end - 1, "BeginEpigraphText",
                             "EndEpigraphText", FALSE),
         source |-> InsideFrom(contents, i, end - 1, "BeginEpigraphSource",
                               "EndEpigraphSource", FALSE),
         next |-> After(contents, end)]

\* LatexWriter::default(), with the fields render_to_tex_standalone sets;
\* skip_to is the position of the events iterator
NewLatexWriter(expected_epigraphs_count, expected_appendices_count, include_toc) ==
    [current_matter |-> None, current_division |-> None,
     expected_epigraphs_count |-> expected_epigraphs_count, seen_epigraphs |-> 0,
     expected_appendices_count |-> expected_appendices_count, seen_appendices |-> 0,
     mainmatter_toggled |-> FALSE, include_toc |-> include_toc, skip_to |-> 1]

\* the BeginDivisionHeader arm of write, for a header of the mainmatter
MainmatterHeader(w, r, is_starred) ==
    IF w.current_division = Some("Part")
    THEN (IF r.title.some
          THEN <<Piece(IF is_starred THEN "part*" ELSE "part", r.title.val)>>
          ELSE <<>>)
    ELSE IF w.current_division = Some("Chapter")
    THEN (IF r.label.some /\ r.title.some THEN <<Piece("chapter", r.title.val)>>
          ELSE IF r.label.some THEN <<Piece("chapter", <<>>)>>
          ELSE IF r.title.some
          THEN <<Piece("stepcounter", "chapter"),
                 Piece("addcontentsline", r.title.val),
                 Piece("chapter*", r.title.val)>>
          ELSE <<Piece("stepcounter", "chapter"),
                 Piece("addcontentsline", <<>>),
                 Piece("chapter*", <<>>)>>)
    ELSE <<>>

\* an Appendix arm that opens the appendices at the header of every appendix,
\* which C19 rules out
AppendicesOpening_AtEvery(seen_appendices) ==
    <<Piece("addcontentsline_toc_part", "Appendices"),
      Piece("setcounter_chapter", 0),
      Piece("renewcommand_thechapter", "Alph")>>

\* what the Appendix arm writes before the header of an appendix: the
\* opening of the appendices, at the first one
AppendicesOpening(seen_appendices) ==
    IF seen_appendices = 1
    THEN <<Piece("addcontentsline_toc_part", "Appendices"),
           Piece("setcounter_chapter", 0),
           Piece("renewcommand_thechapter", "Alph")>>
    ELSE <<>>

\* an Epigraph arm that closes the environment after every epigraph, which
\* C27 rules out
EpigraphsClosing_AtEvery(seen_epigraphs, expected_epigraphs_count) ==
    <<Piece("end", "epigraphs")>>

\* what the Epigraph arm writes after an epigraph: the end of the shared
\* environment after the last one expected, a skip after the others
EpigraphsClosing(seen_epigraphs, expected_epigraphs_count) ==
    IF seen_epigraphs = expected_epigraphs_count
    THEN <<Piece("end", "epigraphs")>>
    ELSE <<Piece("bigskip", <<>>)>>

\* a BeginMainmatter arm that writes the switch whatever was written before,
\* which C30 rules out
MainmatterSwitch_Always(mainmatter_toggled) == <<Piece("mainmatter", <<>>)>>

\* what the BeginMainmatter arm writes last: the \mainmatter switch, unless a
\* foreword, an introduction or a preface has written it already
MainmatterSwitch(mainmatter_toggled) ==
    IF ~mainmatter_toggled THEN <<Piece("mainmatter", <<>>)>> ELSE <<>>

\* the BeginDivisionHeader arm of write, for a header outside the mainmatter
AncillaryHeader(w, h, r) ==
    IF w.current_division = Some("Appendix")
    THEN AppendicesOpening(w.seen_appendices)
         \o (IF r.label.some /\ r.title.some
             THEN <<Piece("setchapterlabel", r.label.val), Piece("chapter", r.title.val),
                    Piece("unsetchapterlabel", <<>>)>>
             ELSE IF r.title.some
             THEN <<Piece("stepcounter", "chapter"), Piece("chapter*", r.title.val),
                    Piece("addcontentsline", r.title.val)>>
             ELSE <<>>)
    ELSE IF w.current_division = Some("Halftitle")
    THEN (IF r.title.some THEN <<Piece("title", r.title.val)>> ELSE <<>>)
    ELSE IF w.current_division = Some("Acknowledgements")
    THEN (IF r.title.some
          THEN <<Piece("stepcounter", "chapter"), Piece("chapter*", r.title.val),
                 Piece("addcontentsline", r.title.val)>>
          ELSE <<>>)
    ELSE LET authors == latex_get_authors(h)
         IN  IF r.label.some /\ r.title.some /\ authors.some
             THEN <<Piece("ancillaryheader", <<r.label.val, r.title.val, authors.val>>)>>
             ELSE IF r.label.some /\ r.title.some
             THEN <<Piece("labelledchapter", <<r.label.val, r.title.val>>)>>
             ELSE IF r.title.some /\ authors.some
             THEN <<Piece("unlabelledancillaryheader", <<r.title.val, authors.val>>)>>
             ELSE IF r.title.some
             THEN <<Piece("stepcounter", "chapter"), Piece("chapter*", r.title.val),
                    Piece("addcontentsline", r.title.val)>>
             ELSE <<>>

\* the environment BeginSemantic(role) opens and EndSemantic(role) closes
RoleEnvironment(role) ==
    CASE role = "Titlepage" -> Some("titlepage")
      [] role = "Copyrightpage" -> Some("copyrightpage")
      [] role = "Halftitle" -> Some("halftitle")
      [] role = "Dedication" -> Some("dedication")
      [] role = "Colophon" -> Some("colophon")
      [] OTHER -> None

\* one pass of the loop of LatexWriter::write at position i: the pieces
\* written and the writer afterwards. An arm that hands the iterator to a
\* collator moves skip_to past what the collator consumed; the arms are tried
\* in the order of the match
LatexWriteStep(contents, i, w, svg) ==
    LET be   == contents[i]
        here == [w EXCEPT !.skip_to = i + 1]
    IN  IF i < w.skip_to THEN [out |-> <<>>, next |-> w]
        ELSE IF be = BeginSemantic("Epigraph")
        THEN LET ep   == collate_epigraph(contents, i + 1)
                 seen == w.seen_epigraphs + 1
             IN  [out |-> (IF w.seen_epigraphs = 0
                           THEN <<Piece("begin", "epigraphs")>> ELSE <<>>)
                          \o WritePlainAll(ep.text, svg)
                          \o (IF ep.source # <<>>
                              THEN <<Piece("epigraphsource", <<>>)>>
                                   \o WritePlainAll(ep.source, svg)
                              ELSE <<>>)
                          \o EpigraphsClosing(seen, w.expected_epigraphs_count),
                  next |-> [w EXCEPT !.seen_epigraphs = seen,
                                     !.current_division = None,
                                     !.skip_to = ep.next]]
        ELSE IF be.type = "BeginDivisionHeader"
        THEN LET h == collate_division_header(contents, i + 1, be.starred)
                 r == latex_reconcile_joined_label_and_title(h)
             IN  [out |-> IF ~r.some THEN <<>>
                          ELSE IF w.current_matter = Some("Main")
                          THEN MainmatterHeader(w, r.val, be.starred)
                          ELSE AncillaryHeader(w, h, r.val),
                  next |-> [w EXCEPT !.skip_to = h.next]]
        ELSE IF be.type = "BeginTitlePage"
        THEN LET t == collate_titlepage(contents, i + 1)
             IN  [out |-> <<Piece("begin", "titlepage")>>
                          \o <<Piece("titlepagetitle", <<>>)>>
                          \o WritePlainAll(t.title, svg)
                          \o (IF t.subtitle.some
                              THEN <<Piece("titlepagesubtitle", <<>>)>>
                                   \o WritePlainAll(t.subtitle.val, svg)
                              ELSE <<>>)
                          \o (IF t.contributors.some
                              THEN <<Piece("titlepagecontributors", t.contributors.val)>>
                              ELSE <<>>)
                          \o <<Piece("end", "titlepage")>>,
                  next |-> [w EXCEPT !.skip_to = t.next]]
        ELSE IF be.type = "Event" /\ IsStart(be.event, "FlattenedFootnote")
        THEN LET f == collect_plain_until_end_of_footnote(contents, i + 1)
             IN  [out |-> <<Piece("footnote", f.events)>>,
                  next |-> [w EXCEPT !.skip_to = f.next]]
        ELSE IF IsStartImage(be)
        THEN LET c == collate_image(contents, i + 1)
             IN  [out |-> Figure(be.event.tag.dest, c.caption, svg),
                  next |-> [w EXCEPT !.skip_to = c.next]]
        ELSE IF be.type = "BeginFrontmatter"
        THEN [out |-> <<Piece("frontmatter", <<>>),
                        Piece("suppresschapternumbersintoc", <<>>)>>,
              next |-> [here EXCEPT !.current_matter = Some("Front")]]
        ELSE IF be.type = "BeginMainmatter"
        THEN [out |-> <<Piece("setcounter_chapter", 0),
                        Piece("pagenumbering", "arabic"),
                        Piece("restorechapternumbersintoc", <<>>)>>
                      \o MainmatterSwitch(w.mainmatter_toggled),
              next |-> [here EXCEPT !.current_matter = Some("Main")]]
        ELSE IF be.type = "BeginBackmatter"
        THEN [out |-> IF w.expected_appendices_count = 0
                      THEN <<Piece("suppresschapternumbersintoc", <<>>)>> ELSE <<>>,
              next |-> [here EXCEPT !.current_matter = Some("Back")]]
        ELSE IF be.type = "Event" /\ IsStart(be.event, "Table")
        THEN [out |-> <<>>,
              next |-> [w EXCEPT !.skip_to =
                          After(contents, FirstEndFrom(contents, i + 1, "Table"))]]
        ELSE IF be.type = "Event" /\ IsStart(be.event, "FootnoteDefinition")
        THEN [out |-> <<>>,
              next |-> [w EXCEPT !.skip_to =
                          After(contents, FirstEndFrom(contents, i + 1,
                                                       "FootnoteDefinition"))]]
        ELSE IF be.type = "BeginSemantic"
        THEN [out |-> IF RoleEnvironment(be.role).some
                      THEN <<Piece("begin", RoleEnvironment(be.role).val)>>
                      ELSE IF be.role \in {"Introduction", "Foreword", "Preface"}
                              /\ ~w.mainmatter_toggled
                      THEN <<Piece("mainmatter", <<>>),
                             Piece("setcounter_secnumdepth", 0),
                             Piece("suppresschapternumbersintoc", <<>>),
                             Piece("pagenumbering", "roman")>>
                      ELSE <<>>,
              next |-> [here EXCEPT
                          !.current_division = Some(be.role),
                          !.mainmatter_toggled =
                              @ \/ be.role \in {"Introduction", "Foreword", "Preface"},
                          !.seen_appendices =
                              IF be.role = "Appendix" THEN @ + 1 ELSE @]]
        ELSE IF be.type = "EndSemantic"
        THEN [out |-> IF RoleEnvironment(be.role).some
                      THEN <<Piece("end", RoleEnvironment(be.role).val)>>
                           \o (IF be.role = "Copyrightpage" /\ w.include_toc
                               THEN <<Piece("tableofcontents", <<>>)>> ELSE <<>>)
                      ELSE IF be.role = "Appendix"
                              /\ w.seen_appendices = w.expected_appendices_count
                      THEN <<Piece("suppresschapternumbersintoc", <<>>)>>
                      ELSE <<>>,
              next |-> [here EXCEPT !.current_division = None]]
        ELSE IF be.type = "Event"
        THEN [out |-> write_plain(be.event, svg), next |-> here]
        ELSE [out |-> <<>>, next |-> here]

\* the loop of LatexWriter::write over contents[lo..hi], entered with writer w
RECURSIVE LatexWriteFrom(_, _, _, _, _)
LatexWriteFrom(contents, lo, hi, w, svg) ==
    IF lo > hi THEN [out |-> <<>>, next |-> w]
    ELSE IF lo = hi THEN LatexWriteStep(contents, lo, w, svg)
    ELSE LET mid == (lo + hi) \div 2
             a == LatexWriteFrom(contents, lo, mid, w, svg)
             b == LatexWriteFrom(contents, mid + 1, hi, a.next, svg)
         IN  [out |-> a.out \o b.out, next |-> b.next]

\* render_to_tex_with_preamble, which consumes the BookSrc it is called on:
\* change_headers, then render_to_tex_standalone, whose text is set between
\* the preamble and the end of the document. It returns a String, never an
\* error
render_to_tex_with_preamble(src, header_format, include_toc, svg) ==
    LET contents == change_headers(src.contents, header_format)
        w == NewLatexWriter(src.expected_epigraph_count,
                            src.expected_appendices_count, include_toc)
        r == LatexWriteFrom(contents, 1, Len(contents), w, svg)
    IN  [status |-> "Ok",
         contents |-> contents,
         output |-> <<Piece("begin", "document")>> \o r.out
                    \o <<Piece("end", "document")>>,
         writer |-> r.next]

\* XhtmlWriter::new(role), and what finish() makes of it: the page of a
\* division, with what was pushed to it
\* numbers is the map of the footnote numbers of the page, in the order of
\* insertion, and notes the numbers written for references and definitions
Page(role, content) ==
    [role |-> role, content |-> content, numbers |-> <<>>, notes |-> <<>>]

\* a number that is drawn anew at every use of a name, which C28 rules out
footnote_number_Fresh(numbers, name) == Len(numbers) + 1

\* *self.numbers.entry(name).or_insert(self.numbers.len() + 1)
footnote_number(numbers, name) ==
    LET at == {k \in 1..Len(numbers) : numbers[k].name = name}
    IN  IF at = {} THEN Len(numbers) + 1 ELSE numbers[CHOOSE k \in at : TRUE].number

\* the map after entry(name).or_insert(number)
NumbersAfter(numbers, name, number) ==
    IF \E k \in 1..Len(numbers) : numbers[k].name = name THEN numbers
    ELSE Append(numbers, [name |-> name, number |-> number])

\* XhtmlWriter::push, of which the numbering of footnotes is kept apart: a
\* footnote reference and the start of a footnote definition are written
\* with the number of their name in the map of the page
push(page, e) ==
    LET noted == \/ e.kind = "FootnoteReference"
                 \/ (e.kind = "Start" /\ e.tag.name = "FootnoteDefinition")
        name   == IF e.kind = "FootnoteReference" THEN e.marker ELSE e.tag.marker
        number == footnote_number(page.numbers, name)
    IN  IF noted
        THEN [page EXCEPT !.content = @ \o <<e>>,
                          !.numbers = NumbersAfter(@, name, number),
                          !.notes = @ \o <<[marker |-> name, number |-> number,
                                            at |-> e.kind]>>]
        ELSE [page EXCEPT !.content = @ \o <<e>>]

\* the events of a collated region pushed one after the other
RECURSIVE PushAll(_, _, _)
PushAll(page, events, k) ==
    IF k > Len(events) THEN page ELSE PushAll(push(page, events[k]), events, k + 1)

\* XhtmlWriter::write_epigraph
write_epigraph(page, ep) ==
    LET text == PushAll([page EXCEPT !.content =
                            @ \o <<[kind |-> "Html", text |-> "epigraph_content"]>>],
                        ep.text, 1)
    IN  IF ep.source # <<>>
        THEN PushAll([text EXCEPT !.content =
                         @ \o <<[kind |-> "Html", text |-> "epigraph_source"]>>],
                     ep.source, 1)
        ELSE text

\* the locals of the loop of get_pages: the page being written, if any, and
\* the position of the events iterator
PagesState == [current_page |-> None, skip_to |-> 1]

\* one pass of the loop of get_pages at position i: the pages pushed and the
\* locals afterwards; the arms are tried in the order of the match
GetPagesStep(events, i, s, has_parts) ==
    LET be   == events[i]
        here == [s EXCEPT !.skip_to = i + 1]
        cp   == IF s.current_page.some THEN s.current_page.val ELSE Page("Chapter", <<>>)
    IN  IF i < s.skip_to THEN [out |-> <<>>, next |-> s]
        ELSE IF be.type = "Event"
        THEN [out |-> <<>>,
              next |-> [here EXCEPT !.current_page = Some(push(cp, be.event))]]
        ELSE IF be.type = "Null" THEN [out |-> <<>>, next |-> here]
        ELSE IF be.type = "BeginTitlePage"
        THEN [out |-> <<Page("Titlepage", <<[kind |-> "Html", text |-> "titlepage"]>>)>>,
              next |-> [s EXCEPT !.skip_to = collate_titlepage(events, i + 1).next]]
        ELSE IF be.type = "BeginDivisionHeader"
        THEN LET h == collate_division_header(events, i + 1, be.starred)
             IN  [out |-> <<>>,
                  next |-> [s EXCEPT
                              !.current_page =
                                  Some([cp EXCEPT !.content =
                                          @ \o <<[kind |-> "DivisionHeader",
                                                  written |-> write_division_header(h)]>>]),
                              !.skip_to = h.next]]
        ELSE IF be = BeginSemantic("Epigraph")
        THEN LET ep == collate_epigraph(events, i + 1)
             IN  [out |-> (IF s.current_page.some THEN <<s.current_page.val>> ELSE <<>>)
                          \o <<write_epigraph(Page("Epigraph", <<>>), ep)>>,
                  next |-> [s EXCEPT !.current_page = None, !.skip_to = ep.next]]
        ELSE IF be.type = "BeginSemantic"
        THEN [out |-> <<>>,
              next |-> [here EXCEPT !.current_page = Some(Page(be.role, <<>>))]]
        ELSE IF be.type = "EndSemantic"
        THEN [out |-> IF s.current_page.some THEN <<s.current_page.val>> ELSE <<>>,
              next |-> [here EXCEPT !.current_page = None]]
        ELSE IF be.type = "BeginMainmatter"
        THEN [out |-> IF has_parts THEN <<>> ELSE <<Page("Mainmatter", <<>>)>>,
              next |-> here]
        ELSE IF be.type = "BeginFrontmatter"
        THEN [out |-> <<Page("Frontmatter", <<>>)>>, next |-> here]
        ELSE IF be.type = "BeginBackmatter"
        THEN [out |-> <<Page("Backmatter", <<>>)>>, next |-> here]
        ELSE [out |-> <<>>, next |-> here]

\* the loop of get_pages over events[lo..hi], entered with the locals s
RECURSIVE GetPagesFrom(_, _, _, _, _)
GetPagesFrom(events, lo, hi, s, has_parts) ==
    IF lo > hi THEN [out |-> <<>>, next |-> s]
    ELSE IF lo = hi THEN GetPagesStep(events, lo, s, has_parts)
    ELSE LET mid == (lo + hi) \div 2
             a == GetPagesFrom(events, lo, mid, s, has_parts)
             b == GetPagesFrom(events, mid + 1, hi, a.next, has_parts)
         IN  [out |-> a.out \o b.out, next |-> b.next]

\* render_to_epub, which consumes the BookSrc it is called on, up to the
\* pages it bundles: get_pages runs change_headers and modify_events
\* (Options::chapter_label is None, so no label is replaced), then preprocess,
\* whose error ends the render, then writes the pages; the page left open at
\* the end of the stream is pushed last
render_to_epub(src, header_options, pdf) ==
    LET contents == change_headers(src.contents, header_options)
        r == preprocess(contents, pdf)
        g == GetPagesFrom(r.events, 1, Len(r.events), PagesState, r.has_parts)
    IN  IF r.status = "Err" THEN r
        ELSE [status |-> "Ok", contents |-> contents,
              has_parts |-> r.has_parts, events |-> r.events,
              pages |-> g.out \o (IF g.next.current_page.some
                                  THEN <<g.next.current_page.val>> ELSE <<>>)]

\* --------------------------------------------------- Metadata::get_authors
\* the string the loop of get_authors builds from the names at indices i..l-1
\* (i counts from 0, as enumerate does)
RECURSIVE JoinAuthors(_, _, _)
JoinAuthors(authors, i, l) ==
    IF i >= l THEN <<>>
    ELSE (IF i = l THEN <<" ", "a", "n", "d", " ">> \o authors[i + 1]
          ELSE IF i = 0 THEN authors[i + 1]
          ELSE <<",", " ">> \o authors[i + 1])
         \o JoinAuthors(authors, i + 1, l)

\* Metadata::get_authors
metadata_get_authors(m) ==
    IF Len(m.authors) = 0 THEN None
    ELSE IF Len(m.authors) = 1 THEN Some(m.authors[1])
    ELSE Some(JoinAuthors(m.authors, 0, Len(m.authors)))

\* ------------------------------------------------------ flatten_footnotes
\* the HashMap footnotes after insert(d, definition)
MapInsert(map, d, definition) ==
    [x \in (DOMAIN map) \cup {d} |-> IF x = d THEN definition ELSE map[x]]

\* the HashMap footnotes after remove(&f)
MapRemove(map, f) == [x \in (DOMAIN map) \ {f} |-> map[x]]

\* the definition taken from fb, without the paragraph that wraps it
UnwrappedDefinition(fb) ==
    IF Len(fb) >= 1 /\ fb[1] = Start(Tag("Paragraph")) /\ fb[Len(fb)] = End(Tag("Paragraph"))
    THEN SubSeq(fb, 2, Len(fb) - 1)
    ELSE fb

\* the first loop of flatten_footnotes, from position i of src on
RECURSIVE SplitFootnotes(_, _, _)
SplitFootnotes(src, i, s) ==
    IF i > Len(src) THEN s
    ELSE LET e == src[i]
         IN  SplitFootnotes(src, i + 1,
               IF e.kind = "Start" /\ e.tag.name = "FootnoteDefinition"
               THEN [s EXCEPT !.in_footnote = TRUE]
               ELSE IF e.kind = "End" /\ e.tag.name = "FootnoteDefinition"
               THEN [s EXCEPT !.in_footnote = FALSE,
                              !.fb = <<>>,
                              !.footnotes = MapInsert(@, e.tag.marker,
                                                      UnwrappedDefinition(s.fb))]
               ELSE IF s.in_footnote
               THEN [s EXCEPT !.fb = @ \o <<e>>]
               ELSE [s EXCEPT !.non_footnotes = @ \o <<e>>])

\* footnotes.remove(&f): the map after a reference to f was met
TakeFootnote(footnotes, f) == MapRemove(footnotes, f)

\* the second loop of flatten_footnotes, from position i of non_footnotes on
RECURSIVE InlineFootnotes(_, _, _)
InlineFootnotes(non_footnotes, i, footnotes) ==
    IF i > Len(non_footnotes) THEN <<>>
    ELSE LET e == non_footnotes[i]
         IN  IF e.kind = "FootnoteReference"
             THEN <<Start(Tag("FlattenedFootnote"))>>
                  \o (IF e.marker \in DOMAIN footnotes THEN footnotes[e.marker]
                      ELSE <<Text(<<>>)>>)
                  \o <<End(Tag("FlattenedFootnote"))>>
                  \o InlineFootnotes(non_footnotes, i + 1, TakeFootnote(footnotes, e.marker))
             ELSE <<e>> \o InlineFootnotes(non_footnotes, i + 1, footnotes)

flatten_footnotes(src) ==
    LET s == SplitFootnotes(src, 1, [non_footnotes |-> <<>>, footnotes |-> <<>>,
                                     fb |-> <<>>, in_footnote |-> FALSE])
    IN  InlineFootnotes(s.non_footnotes, 1, s.footnotes)

\* ------------------------------------------------------------ call_latex
\* a file of the output directory (temp_dir()/bookbinder, which is never
\* emptied) and what it holds: the text written by _call_latex, or the PDF or
\* the log the toolchain made of the text `of`
TempFile(stem, ext, kind, of, status) ==
    [stem |-> stem, ext |-> ext,
     content |-> [kind |-> kind, of |-> of, status |-> status]]

\* HashToString::hash_to_string: the decimal form of the 64-bit hash of the
\* text; the texts of the model are taken to have distinct hashes
hash_to_string(tex) == [hash_of |-> tex]

\* the files of dir after a write of (stem, ext), which replaces the file
WriteFile(dir, f) == {g \in dir : ~(g.stem = f.stem /\ g.ext = f.ext)} \cup {f}

FileAt(dir, stem, ext) == {g \in dir : g.stem = stem /\ g.ext = ext}

\* the std::io::Error of a failed write or spawn
IoError(kind) == [kind |-> kind, of |-> <<>>, status |-> 0]

\* "Latex error without log generated; perhaps LaTeX is not installed?"
ErrorWithoutLog == [kind |-> "message", of |-> <<>>, status |-> 0]

\* what _call_latex returns once the toolchain has exited: `let _ =
\* ltx.wait()?` drops the exit status, and the output path alone decides
ReturnOfLatex(dir, stem, status) ==
    IF FileAt(dir, stem, "pdf") = {}
    THEN [status |-> "Err",
          detail |-> IF FileAt(dir, stem, "log") = {} THEN ErrorWithoutLog
                     ELSE (CHOOSE g \in FileAt(dir, stem, "log") : TRUE).content]
    ELSE [status |-> "Ok",
          detail |-> (CHOOSE g \in FileAt(dir, stem, "pdf") : TRUE).content]

\* _call_latex(tex, false) in the output directory dir; run is what the
\* system and the toolchain do: whether the text can be written, whether
\* latexmk can be spawned, its exit status, and whether it writes a PDF and a
\* log. The result, and the output directory afterwards
call_latex(tex, dir, run) ==
    LET filename_base == hash_to_string(tex)
        written == WriteFile(dir, TempFile(filename_base, "tex", "tex", tex, 0))
        with_pdf == IF run.pdf
                    THEN WriteFile(written,
                                   TempFile(filename_base, "pdf", "pdf", tex, run.status))
                    ELSE written
        after == IF run.log
                 THEN WriteFile(with_pdf,
                                TempFile(filename_base, "log", "log", tex, run.status))
                 ELSE with_pdf
    IN  IF ~run.written
        THEN [result |-> [status |-> "Err", detail |-> IoError("write")], outdir |-> dir]
        ELSE IF ~run.spawned
        THEN [result |-> [status |-> "Err", detail |-> IoError("spawn")], outdir |-> written]
        ELSE [result |-> ReturnOfLatex(after, filename_base, run.status), outdir |-> after]

\* ------------------------------------------------------ *_from_file
\* std::fs::read_to_string, on the files that exist: what the parser makes of
\* the markdown file (a chapter with an image kept beside the file)
FileText(path) ==
    <<Start(Heading(1)), Text(<<"H","e","l","l","o">>), End(Heading(1)),
      Start(Tag("Paragraph")), Start(Image(Path("a", "png"))),
      End(Image(Path("a", "png"))), End(Tag("Paragraph"))>>

\* a helper that records the directory before it looks at the file type, which
\* C16 rules out
read_file_and_add_to_sources_DirFirst(b, path) ==
    IF is_markdown(path) /\ path \in ExistingFiles
    THEN [ok |-> TRUE, text |-> FileText(path),
          builder |-> [b EXCEPT !.image_dirs = @ \cup {path.dir}]]
    ELSE [ok |-> FALSE,
          error |-> IF is_markdown(path) THEN "NotFound" ELSE "Non-markdown file",
          builder |-> [b EXCEPT !.image_dirs = @ \cup {path.dir}]]

\* read_file_and_add_to_sources: the text, and the builder with the parent
\* directory of the file among its image directories; or the error, and the
\* builder as it was
read_file_and_add_to_sources(b, path) ==
    IF is_markdown(path)
    THEN IF path \in ExistingFiles
         THEN [ok |-> TRUE, text |-> FileText(path),
               builder |-> [b EXCEPT !.image_dirs = @ \cup {path.dir}]]
         ELSE [ok |-> FALSE, error |-> "NotFound", builder |-> b]
    ELSE [ok |-> FALSE, error |-> "Non-markdown file", builder |-> b]

\* what a *_from_file operation returns: Err(error), or Ok(self)
FileResult(r, builder) ==
    IF r.ok THEN [ok |-> TRUE, builder |-> builder]
    ELSE [ok |-> FALSE, error |-> r.error, builder |-> r.builder]

add_copyright_page_from_file(b, path) ==
    LET r == read_file_and_add_to_sources(b, path)
    IN  FileResult(r, IF r.ok
                      THEN LET st == remove_initial_title(parse_plain(r.text))
                           IN  add_copyright_page(r.builder, st.rest, st.title)
                      ELSE b)

add_foreword_from_file(b, path, authors) ==
    LET r == read_file_and_add_to_sources(b, path)
    IN  FileResult(r, IF r.ok THEN add_foreword(r.builder, r.text, None, authors) ELSE b)

add_afterword_from_file(b, path, authors) ==
    LET r == read_file_and_add_to_sources(b, path)
    IN  FileResult(r, IF r.ok THEN add_afterword(r.builder, r.text, None, authors) ELSE b)

add_introduction_from_file(b, path, authors) ==
    LET r == read_file_and_add_to_sources(b, path)
    IN  FileResult(r, IF r.ok THEN add_introduction(r.builder, r.text, None, authors) ELSE b)

add_preface_from_file(b, path, title) ==
    LET r == read_file_and_add_to_sources(b, path)
    IN  FileResult(r, IF r.ok THEN add_preface(r.builder, r.text, title) ELSE b)

add_acknowledgements_from_file(b, path, title) ==
    LET r == read_file_and_add_to_sources(b, path)
    IN  FileResult(r, IF r.ok THEN add_acknowledgements(r.builder, r.text, title) ELSE b)

add_appendix_from_file(b, path, title) ==
    LET r == read_file_and_add_to_sources(b, path)
    IN  FileResult(r, IF r.ok THEN add_appendix(r.builder, r.text, title) ELSE b)

add_mainmatter_from_file(b, path) ==
    LET r == read_file_and_add_to_sources(b, path)
    IN  FileResult(r, IF r.ok THEN add_mainmatter(r.builder, r.text) ELSE b)

\* ----------------------------------------------------------------- inputs
T_ABook == <<"A"," ","B","o","o","k">>

T_Hello == <<"H","e","l","l","o">>

T_Text == <<"T","e","x","t">>

T_Hi == <<"H","i">>

T_Ann == <<"A","n","n">>

T_Chapter1 == <<"C","h","a","p","t","e","r"," ","1">>

T_Chapter1Wolves == <<"c","h","a","p","t","e","r"," ","1",":"," ","W","o","l","f">>

Para(t) == <<Start(Tag("Paragraph")), Text(t), End(Tag("Paragraph"))>>

HeadingTokens(h, title) == <<Start(Heading(h))>> \o title \o <<End(Heading(h))>>

\* "# Hello\n\nText"
FragHello == HeadingTokens(1, <<Text(T_Hello)>>) \o Para(T_Text)

\* the titles the constructor is given
Titles == {T_ABook}

\* fragments given to add_mainmatter
MainFragments ==
    { FragHello,
      HeadingTokens(2, <<Text(T_Hi)>>) \o Para(T_Text),
      HeadingTokens(3, <<Text(T_Hi)>>),
      Para(T_Text) }

\* (text, title) arguments of the add_* operations of ancillary divisions:
\* untitled text, text that opens with its own title, and an explicit title
AncillaryArgs ==
    { [text |-> Para(T_Text), title |-> None],
      [text |-> HeadingTokens(1, <<Text(T_Hi)>>) \o Para(T_Text), title |-> None],
      [text |-> Para(T_Text), title |-> Some(<<Text(T_Hello)>>)] }

\* (text, title, authors) arguments of add_foreword, add_afterword and
\* add_introduction
AuthoredArgs ==
    { [text |-> Para(T_Text), title |-> None, authors |-> <<>>],
      [text |-> HeadingTokens(1, <<Text(T_Hi)>>) \o Para(T_Text), title |-> None,
       authors |-> <<T_Ann>>],
      [text |-> Para(T_Text), title |-> Some(<<Text(T_Hello)>>), authors |-> <<>>] }

\* (author, title_of_source, quote_title) arguments of add_explicit_epigraph
ExplicitArgs ==
    { [author |-> Some(T_Ann), title_of_source |-> Some(T_Hi), quote_title |-> FALSE],
      [author |-> None, title_of_source |-> Some(T_Hi), quote_title |-> TRUE],
      [author |-> None, title_of_source |-> None, quote_title |-> FALSE] }

\* inline texts: halftitle, dedication, colophon, epigraph source
InlineTexts == { <<Text(T_Hi)>> }

MetadataValues == { T_Hi }

\* "# Hi\n\n## Chapter 1\n\nText\n\n## Hello\n\nText": a part of two chapters
FragPart ==
    HeadingTokens(1, <<Text(T_Hi)>>)
    \o HeadingTokens(2, <<Text(T_Chapter1)>>) \o Para(T_Text)
    \o HeadingTokens(2, <<Text(T_Hello)>>) \o Para(T_Text)

\* "# chapter 1: Wolf\n\nText"
FragWolf == HeadingTokens(1, <<Text(T_Chapter1Wolves)>>) \o Para(T_Text)

\* fragments given to add_mainmatter in the mainmatter-only specification
\* "# *Hello*`Hi`\n\nText": a title with emphasis and an inline code span
FragCode ==
    HeadingTokens(1, <<Start(Tag("Emphasis")), Text(T_Hello), End(Tag("Emphasis")),
                       Code(T_Hi)>>)
    \o Para(T_Text)

DivisionFragments ==
    { FragCode,
      FragPart,
      FragWolf,
      HeadingTokens(2, <<Text(T_Hi)>>) \o Para(T_Text),
      HeadingTokens(3, <<Text(T_Hi)>>),
      Para(T_Text) }

\* "![Hi](a.<ext>)": a paragraph that holds one image with a caption
ImagePara(ext) ==
    <<Start(Tag("Paragraph")), Start(Image(Path("a", ext))), Text(T_Hi),
      End(Image(Path("a", ext))), End(Tag("Paragraph"))>>

\* the extensions of the images: supported by both backends, by EPUB only,
\* convertible for LaTeX, convertible for EPUB, and supported by neither
ImageExtensions == {"png", "gif", "svg", "pdf", "bmp"}

\* fragments given to add_mainmatter before a render
ImageFragments == {FragCode} \cup {ImagePara(ext) : ext \in ImageExtensions}

\* a paragraph with a footnote, as flatten_footnotes leaves it
NotePara(t, note) ==
    <<Start(Tag("Paragraph")), Text(t), Start(Tag("FlattenedFootnote")), Text(note),
      End(Tag("FlattenedFootnote")), End(Tag("Paragraph"))>>

\* mainmatter texts with and without footnotes: a chapter with one note, a
\* chapter with two, a chapter with none, and a noted paragraph under no
\* heading
NoteFragments ==
    {HeadingTokens(1, <<Text(T_Hello)>>) \o NotePara(T_Text, T_Hi),
     HeadingTokens(1, <<Text(T_Hi)>>) \o NotePara(T_Text, T_Hi) \o NotePara(T_Hello, T_Ann),
     FragWolf,
     NotePara(T_Text, T_Ann)}

\* epigraph texts with and without a footnote
NoteEpigraphs == {Para(T_Text), NotePara(T_Text, T_Hi)}

\* "![Hi ![Ann](b.png)](a.png)": a paragraph that holds an image whose
\* caption holds an image
NestedImagePara ==
    <<Start(Tag("Paragraph")), Start(Image(Path("a", "png"))), Text(T_Hi),
      Start(Image(Path("b", "png"))), Text(T_Ann), End(Image(Path("b", "png"))),
      End(Image(Path("a", "png"))), End(Tag("Paragraph"))>>

\* mainmatter texts with the regions the backends collate: a chapter with a
\* footnote, a chapter with an image, a chapter with an image in the caption
\* of an image, and a chapter with neither
CollatedFragments ==
    {HeadingTokens(1, <<Text(T_Hello)>>) \o NotePara(T_Text, T_Hi),
     HeadingTokens(1, <<Text(T_Hi)>>) \o ImagePara("png"),
     HeadingTokens(1, <<Text(T_Ann)>>) \o NestedImagePara,
     FragWolf}

\* the labels of a division header: text or none, number or none, in each
\* number format
HeaderLabels ==
    {DivisionHeaderLabel(t, n, f) :
        t \in {None, Some(get_label("Chapter").val)}, n \in {None, Some(1), Some(4)},
        f \in {"Arabic", "Roman", "Words", "Letter"}}

\* division headers as a stream holds them: starred or not, with a label or
\* none, with a title or none
HeaderStreams ==
    {<<BeginDivisionHeader(b)>> \o label \o title \o <<EndDivisionHeader(b)>> :
        b \in BOOLEAN, label \in {<<>>} \cup {<<l>> : l \in HeaderLabels},
        title \in {<<>>, <<BEvent(Text(T_Hello))>>}}

\* mainmatter texts for the pages of an EPUB: a paragraph under no heading, a
\* chapter, a part with a paragraph between its header and its first
\* chapter, and a part of two chapters
PagedFragments ==
    {Para(T_Ann),
     FragWolf,
     HeadingTokens(1, <<Text(T_Hi)>>) \o Para(T_Hello)
        \o HeadingTokens(2, <<Text(T_Chapter1)>>) \o Para(T_Text),
     FragPart}

\* the texts handed to call_latex
TexDocuments == {<<"a">>, <<"b">>}

\* what the system and the toolchain may do in a call: the text cannot be
\* written, latexmk cannot be spawned, or it runs, exits with a status and
\* leaves a PDF, a log, both or neither
ToolchainRuns ==
    {[written |-> FALSE, spawned |-> FALSE, status |-> 0, pdf |-> FALSE, log |-> FALSE],
     [written |-> TRUE, spawned |-> FALSE, status |-> 0, pdf |-> FALSE, log |-> FALSE]}
    \cup [written : {TRUE}, spawned : {TRUE}, status : {0, 1},
          pdf : BOOLEAN, log : BOOLEAN]

\* a footnote definition, as the parser gives it
NoteDefinition(marker, content) ==
    <<Start(FootnoteDefinition(marker))>> \o content \o <<End(FootnoteDefinition(marker))>>

\* the pieces of the token sequences given to flatten_footnotes: text,
\* references to two markers, a definition of the first marker in a
\* paragraph, a bare definition of the second and a definition of the first
\* that refers to the second
NotePieces ==
    {<<Text(T_Hi)>>,
     <<FootnoteReference("1")>>,
     <<FootnoteReference("2")>>,
     NoteDefinition("1", Para(T_Text)),
     NoteDefinition("2", <<Text(T_Ann)>>),
     NoteDefinition("1", <<Text(T_Hello), FootnoteReference("2")>>)}

\* the token sequences made of up to MaxPieces pieces
NoteSources ==
    UNION {{Flatten(f) : f \in [1..n -> NotePieces]} : n \in 0..MaxPieces}

\* the names of authors
AuthorNames == {T_Ann, T_Hi, T_Hello}

\* the lists of up to MaxAuthors authors
AuthorLists == UNION {[1..n -> AuthorNames] : n \in 0..MaxAuthors}

\* what reading and converting a PDF image comes to, in the EPUB backend
PdfOutcomes == {"ok", "missing", "conversion_error"}

\* what converting an SVG image comes to, in the LaTeX backend
SvgOutcomes == {"ok", "conversion_error"}

\* the header formats the renders are given
RenderFormats ==
    { DefaultHeaderOptions,
      [DefaultHeaderOptions EXCEPT !.chapter_header_format = "NumberAlone",
                                   !.chapter_number_format = "Roman"] }

\* the paths given to the *_from_file operations: a markdown file, a LaTeX
\* file, a file without an extension, and a markdown file that does not exist
FilePaths ==
    { [dir |-> "book", stem |-> "ch", ext |-> "md"],
      [dir |-> "book", stem |-> "ch", ext |-> "tex"],
      [dir |-> "book", stem |-> "ch", ext |-> ""],
      [dir |-> "book", stem |-> "gone", ext |-> "md"] }

\* the authors given to the *_from_file operations of authored divisions
FileAuthors == { <<>>, <<T_Ann>> }

\* the titles given to the *_from_file operations of unauthored divisions
FileTitles == { None, Some(<<Text(T_Hi)>>) }

\* the TextHeaderOptions given to change_headers
HeaderOptions ==
    [chapter_header_format : HeaderFormats,
     part_header_format : {"LabelAndNumberAndTitle", "LabelAlone", "TitleAlone"},
     chapter_number_format : {"Arabic", "Roman"},
     part_number_format : {"Roman"}]

\* ------------------------------------------------------------------ state
VARIABLES
    builder,    \* the BookSrcBuilder
    phase,      \* "building", then "processed" once process() has returned
    book,       \* the BookSrc returned by process()
    calls,      \* history: the number of operations and of add_epigraph calls
                \* made, the events handed to add_mainmatter so far, whether
                \* backmatter content was added, and whether set_halftitle and
                \* add_copyright_page were called
    render,     \* the EPUB page getter: the options change_headers was given,
                \* the contents it was given (history), the position of the
                \* events iterator, the division and the collated header last
                \* written, and what that header pushed to the target
    epub,       \* what render_to_epub made of a clone of the book: nothing yet,
                \* the preprocessed events, or the RenderingError
    latex,      \* what render_to_tex_with_preamble made of a clone of the
                \* book: nothing yet, or the LatexWriter it ended with
    io,         \* what the last *_from_file operation returned, the path it
                \* was given and the builder it was called on (history)
    typeset,    \* the files of the output directory of call_latex, the number
                \* of calls made, and the text, the run and the result of the
                \* last call (history)
    applied     \* a function called on its own: its name, its arguments and,
                \* once it has returned, its result

vars == <<builder, phase, book, calls, render, epub, latex, io, typeset, applied>>

\* the results of the renders, of the file operations, of call_latex and of
\* the functions called on their own
outcomes == <<epub, latex, io, typeset, applied>>

\* no render made yet
NoEpub == [done |-> FALSE]

NoLatex == [done |-> FALSE]

\* no file operation made yet
NoIo == [status |-> "none"]

\* no function called on its own
NoApplied == [fn |-> "none", done |-> FALSE]

\* an empty output directory, and no call made yet
NoTypeset == [outdir |-> {}, calls |-> 0, last |-> [done |-> FALSE]]

NoRender ==
    [format |-> DefaultHeaderOptions, before |-> <<>>, cursor |-> 1,
     current_division |-> None, header |-> None, target |-> <<>>]

Init ==
    /\ builder \in {NewBuilder(t) : t \in Titles}
    /\ phase = "building"
    /\ book = DefaultBookSrc
    /\ calls = [ops |-> 0, add_epigraph |-> 0, mainmatter |-> <<>>, backmatter |-> FALSE,
                set_halftitle |-> FALSE, add_copyright_page |-> FALSE]
    /\ render = NoRender
    /\ epub = NoEpub
    /\ latex = NoLatex
    /\ io = NoIo
    /\ typeset = NoTypeset
    /\ applied = NoApplied

\* a builder operation other than add_epigraph and add_mainmatter
BuilderOp(b) ==
    /\ phase = "building"
    /\ calls.ops < MaxOps
    /\ builder' = b
    /\ calls' = [calls EXCEPT !.ops = @ + 1]
    /\ UNCHANGED <<phase, book, render, outcomes>>

\* a builder operation that adds backmatter content
BackmatterOp(b) ==
    /\ phase = "building"
    /\ calls.ops < MaxOps
    /\ builder' = b
    /\ calls' = [calls EXCEPT !.ops = @ + 1, !.backmatter = TRUE]
    /\ UNCHANGED <<phase, book, render, outcomes>>

\* set_halftitle or add_copyright_page, which set a page explicitly
PageOp(b, op) ==
    /\ phase = "building"
    /\ calls.ops < MaxOps
    /\ builder' = b
    /\ calls' = [calls EXCEPT !.ops = @ + 1, ![op] = TRUE]
    /\ UNCHANGED <<phase, book, render, outcomes>>

DoNotGenerateHalftitle == BuilderOp([builder EXCEPT !.no_halftitle = TRUE])

DoNotGenerateTitlepage == BuilderOp([builder EXCEPT !.no_titlepage = TRUE])

DoNotGenerateCopyrightpage == BuilderOp([builder EXCEPT !.no_copyrightpage = TRUE])

AddCopyrightPage ==
    \E title \in {None, Some(<<Text(T_Hello)>>)} :
        PageOp(add_copyright_page(builder, Para(T_Text), title), "add_copyright_page")

Author == \E val \in MetadataValues : BuilderOp([builder EXCEPT !.metadata.authors = @ \o <<val>>])

Shorttitle == \E val \in MetadataValues : BuilderOp([builder EXCEPT !.metadata.shorttitle = Some(val)])

Subtitle == \E val \in MetadataValues : BuilderOp([builder EXCEPT !.metadata.subtitle = Some(val)])

SetHalftitle == \E t \in InlineTexts : PageOp(set_halftitle(builder, t), "set_halftitle")

SetDedication == \E t \in InlineTexts : BuilderOp(set_dedication(builder, t))

SetColophon == \E t \in InlineTexts : BackmatterOp(set_colophon(builder, t))

AddForeword ==
    \E a \in AuthoredArgs :
        BuilderOp(add_foreword(builder, a.text, a.title, a.authors))

AddAfterword ==
    \E a \in AuthoredArgs :
        BackmatterOp(add_afterword(builder, a.text, a.title, a.authors))

AddIntroduction ==
    \E a \in AuthoredArgs :
        BuilderOp(add_introduction(builder, a.text, a.title, a.authors))

AddPreface ==
    \E a \in AncillaryArgs :
        BuilderOp(add_preface(builder, a.text, a.title))

AddAcknowledgements ==
    \E a \in AncillaryArgs :
        BackmatterOp(add_acknowledgements(builder, a.text, a.title))

AddAppendix ==
    \E a \in AncillaryArgs :
        BackmatterOp(add_appendix(builder, a.text, a.title))

AddMainmatter ==
    \E text \in MainFragments :
        /\ phase = "building"
        /\ calls.ops < MaxOps
        /\ builder' = add_mainmatter(builder, text)
        /\ calls' = [calls EXCEPT !.ops = @ + 1, !.mainmatter = @ \o text]
        /\ UNCHANGED <<phase, book, render, outcomes>>

EpigraphOp(b) ==
    /\ phase = "building"
    /\ calls.ops < MaxOps
    /\ builder' = b
    /\ calls' = [calls EXCEPT !.ops = @ + 1, !.add_epigraph = @ + 1]
    /\ UNCHANGED <<phase, book, render, outcomes>>

AddEpigraph ==
    \E source \in {None} \cup {Some(t) : t \in InlineTexts} :
        EpigraphOp(add_epigraph(builder, Para(T_Text), source))

AddExplicitEpigraph ==
    \E a \in ExplicitArgs :
        EpigraphOp(add_explicit_epigraph(builder, Para(T_Text), a.author,
                                         a.title_of_source, a.quote_title))

Process ==
    /\ phase = "building"
    /\ book' = ProcessResult(builder)
    /\ builder' = BuilderAfterProcess(builder)
    /\ phase' = "processed"
    /\ UNCHANGED <<calls, render, outcomes>>

Next ==
    \/ DoNotGenerateHalftitle
    \/ DoNotGenerateTitlepage
    \/ DoNotGenerateCopyrightpage
    \/ AddCopyrightPage
    \/ Author
    \/ Shorttitle
    \/ Subtitle
    \/ SetHalftitle
    \/ SetDedication
    \/ SetColophon
    \/ AddForeword
    \/ AddAfterword
    \/ AddIntroduction
    \/ AddPreface
    \/ AddAcknowledgements
    \/ AddAppendix
    \/ AddMainmatter
    \/ AddEpigraph
    \/ AddExplicitEpigraph
    \/ Process

Spec == Init /\ [][Next]_vars

\* ----------------------------------------- mainmatter, formatted and written
AddMainmatterFragment ==
    \E text \in DivisionFragments :
        /\ phase = "building"
        /\ calls.ops < MaxFrags
        /\ builder' = add_mainmatter(builder, text)
        /\ calls' = [calls EXCEPT !.ops = @ + 1, !.mainmatter = @ \o text]
        /\ UNCHANGED <<phase, book, render, outcomes>>

\* get_pages begins with change_headers(options.header_options)
ChangeHeaders ==
    \E format \in HeaderOptions :
        /\ phase = "processed"
        /\ book' = [book EXCEPT !.contents = change_headers(book.contents, format)]
        /\ render' = [NoRender EXCEPT !.format = format, !.before = book.contents]
        /\ phase' = "rendering"
        /\ UNCHANGED <<builder, calls, outcomes>>

\* the role of the division an event lies in: the last BeginSemantic before it
DivisionAt(contents, i) ==
    LET begins == {k \in 1..(i - 1) : contents[k].type = "BeginSemantic"}
    IN  IF begins = {} THEN None
        ELSE Some(contents[CHOOSE k \in begins : \A j \in begins : j <= k].role)

\* the loop of get_pages, run up to and through the next BeginDivisionHeader:
\* collate_division_header, then write_division_header
WriteDivisionHeader ==
    /\ phase = "rendering"
    /\ LET i == FirstFrom(book.contents, render.cursor, "BeginDivisionHeader")
       IN  /\ i <= Len(book.contents)
           /\ LET h == collate_division_header(book.contents, i + 1,
                                               book.contents[i].starred)
              IN  render' = [render EXCEPT
                                !.cursor = h.next,
                                !.current_division = DivisionAt(book.contents, i),
                                !.header = Some(h),
                                !.target = write_division_header(h)]
    /\ UNCHANGED <<builder, phase, book, calls, outcomes>>

NextDivisions ==
    \/ AddMainmatterFragment
    \/ Process
    \/ ChangeHeaders
    \/ WriteDivisionHeader

SpecDivisions == Init /\ [][NextDivisions]_vars

\* a book of mainmatter and appendices, processed, then given to change_headers
NextHeaders ==
    \/ AddMainmatterFragment
    \/ AddAppendix
    \/ Process
    \/ ChangeHeaders

SpecHeaders == Init /\ [][NextHeaders]_vars

AddImageFragment ==
    \E text \in ImageFragments :
        /\ phase = "building"
        /\ calls.ops < MaxFrags
        /\ builder' = add_mainmatter(builder, text)
        /\ calls' = [calls EXCEPT !.ops = @ + 1, !.mainmatter = @ \o text]
        /\ UNCHANGED <<phase, book, render, outcomes>>

\* a render that works on the book itself and not on a clone, which C17 rules
\* out: the book is left with the rewritten headers, or emptied
BookAfterRender_Shared(src, rendered) ==
    IF rendered.status = "Ok" THEN [src EXCEPT !.contents = rendered.contents]
    ELSE [src EXCEPT !.contents = <<>>]

\* what a render leaves of the book it was made from: it was given a clone
\* (src.clone()), which it consumed, so the book is as it was
BookAfterRender(src, rendered) == src

\* create_epub(src.clone(), options): render_to_epub on a clone of the book
RenderEpub ==
    \E header_options \in RenderFormats, pdf \in PdfOutcomes :
        /\ phase = "processed"
        /\ ~epub.done
        /\ LET result == render_to_epub(book, header_options, pdf)
           IN  /\ epub' = [done |-> TRUE, given |-> book.contents,
                           format |-> header_options, result |-> result]
               /\ book' = BookAfterRender(book, result)
        /\ UNCHANGED <<builder, phase, calls, render, latex, io, typeset, applied>>

\* render_to_tex_with_preamble on a clone of the book
RenderLatex ==
    \E header_format \in RenderFormats, svg \in SvgOutcomes :
        /\ phase = "processed"
        /\ ~latex.done
        /\ LET result == render_to_tex_with_preamble(book, header_format, TRUE, svg)
           IN  /\ latex' = [done |-> TRUE, given |-> book.contents,
                            format |-> header_format, result |-> result]
               /\ book' = BookAfterRender(book, result)
        /\ UNCHANGED <<builder, phase, calls, render, epub, io, typeset, applied>>

\* a *_from_file operation called on the builder, which returns r
FileOp(path, r) ==
    /\ phase = "building"
    /\ calls.ops < MaxOps
    /\ builder' = r.builder
    /\ io' = [status |-> IF r.ok THEN "Ok" ELSE "Err",
              error |-> IF r.ok THEN "" ELSE r.error,
              path |-> path, before |-> builder]
    /\ calls' = [calls EXCEPT !.ops = @ + 1]
    /\ UNCHANGED <<phase, book, render, epub, latex, typeset, applied>>

AddCopyrightPageFromFile ==
    \E path \in FilePaths : FileOp(path, add_copyright_page_from_file(builder, path))

AddForewordFromFile ==
    \E path \in FilePaths, authors \in FileAuthors :
        FileOp(path, add_foreword_from_file(builder, path, authors))

AddAfterwordFromFile ==
    \E path \in FilePaths, authors \in FileAuthors :
        FileOp(path, add_afterword_from_file(builder, path, authors))

AddIntroductionFromFile ==
    \E path \in FilePaths, authors \in FileAuthors :
        FileOp(path, add_introduction_from_file(builder, path, authors))

AddPrefaceFromFile ==
    \E path \in FilePaths, title \in FileTitles :
        FileOp(path, add_preface_from_file(builder, path, title))

AddAcknowledgementsFromFile ==
    \E path \in FilePaths, title \in FileTitles :
        FileOp(path, add_acknowledgements_from_file(builder, path, title))

AddAppendixFromFile ==
    \E path \in FilePaths, title \in FileTitles :
        FileOp(path, add_appendix_from_file(builder, path, title))

AddMainmatterFromFile ==
    \E path \in FilePaths : FileOp(path, add_mainmatter_from_file(builder, path))

\* a book put together from files, then processed
NextFiles ==
    \/ AddCopyrightPageFromFile
    \/ AddForewordFromFile
    \/ AddAfterwordFromFile
    \/ AddIntroductionFromFile
    \/ AddPrefaceFromFile
    \/ AddAcknowledgementsFromFile
    \/ AddAppendixFromFile
    \/ AddMainmatterFromFile
    \/ Process

SpecFiles == Init /\ [][NextFiles]_vars

AddNoteFragment ==
    \E text \in NoteFragments :
        /\ phase = "building"
        /\ calls.ops < MaxFrags
        /\ builder' = add_mainmatter(builder, text)
        /\ calls' = [calls EXCEPT !.ops = @ + 1, !.mainmatter = @ \o text]
        /\ UNCHANGED <<phase, book, render, outcomes>>

AddNoteEpigraph ==
    \E text \in NoteEpigraphs, source \in {None, Some(<<Text(T_Ann)>>)} :
        /\ phase = "building"
        /\ calls.ops < MaxFrags
        /\ builder' = add_epigraph(builder, text, source)
        /\ calls' = [calls EXCEPT !.ops = @ + 1, !.add_epigraph = @ + 1]
        /\ UNCHANGED <<phase, book, render, outcomes>>

\* a book with footnotes, processed, then rendered as an EPUB
NextNotes ==
    \/ AddNoteFragment
    \/ AddNoteEpigraph
    \/ Process
    \/ RenderEpub

SpecNotes == Init /\ [][NextNotes]_vars

AddCollatedFragment ==
    \E text \in CollatedFragments :
        /\ phase = "building"
        /\ calls.ops < MaxFrags
        /\ builder' = add_mainmatter(builder, text)
        /\ calls' = [calls EXCEPT !.ops = @ + 1, !.mainmatter = @ \o text]
        /\ UNCHANGED <<phase, book, render, outcomes>>

\* a book with a titlepage, division headers, epigraphs, footnotes and images,
\* processed, then rendered as LaTeX
NextCollate ==
    \/ AddCollatedFragment
    \/ AddNoteEpigraph
    \/ Process
    \/ RenderLatex

SpecCollate == Init /\ [][NextCollate]_vars

AddPagedFragment ==
    \E text \in PagedFragments :
        /\ phase = "building"
        /\ calls.ops < MaxFrags
        /\ builder' = add_mainmatter(builder, text)
        /\ calls' = [calls EXCEPT !.ops = @ + 1, !.mainmatter = @ \o text]
        /\ UNCHANGED <<phase, book, render, outcomes>>

\* a book of mainmatter with and without parts, processed, then rendered as
\* an EPUB
NextPages ==
    \/ AddPagedFragment
    \/ AddNoteEpigraph
    \/ Process
    \/ RenderEpub

SpecPages == Init /\ [][NextPages]_vars

\* a book with forewords, introductions, prefaces and mainmatter, processed,
\* then rendered as LaTeX
NextMatter ==
    \/ AddForeword
    \/ AddIntroduction
    \/ AddPreface
    \/ AddNoteFragment
    \/ Process
    \/ RenderLatex

SpecMatter == Init /\ [][NextMatter]_vars

\* PdfRenderer::render_to_pdf hands the text of its render to call_latex
CallLatex ==
    \E tex \in TexDocuments, run \in ToolchainRuns :
        /\ typeset.calls < MaxCalls
        /\ LET r == call_latex(tex, typeset.outdir, run)
           IN  typeset' = [outdir |-> r.outdir, calls |-> typeset.calls + 1,
                           last |-> [done |-> TRUE, tex |-> tex, run |-> run,
                                     before |-> typeset.outdir, result |-> r.result]]
        /\ UNCHANGED <<builder, phase, book, calls, render, epub, latex, io, applied>>

\* texts typeset one after the other in the same output directory
NextTypeset == CallLatex

\* the program before anything was built, with a function about to be
\* called on the arguments args
InitApplied(fn, args) ==
    /\ builder \in {NewBuilder(t) : t \in Titles}
    /\ phase = "building"
    /\ book = DefaultBookSrc
    /\ calls = [ops |-> 0, add_epigraph |-> 0, mainmatter |-> <<>>, backmatter |-> FALSE,
                set_halftitle |-> FALSE, add_copyright_page |-> FALSE]
    /\ render = NoRender
    /\ epub = NoEpub
    /\ latex = NoLatex
    /\ io = NoIo
    /\ typeset = NoTypeset
    /\ applied \in {[fn |-> fn, done |-> FALSE, args |-> a] : a \in args}

\* the function returns result
Return(fn, result) ==
    /\ applied.fn = fn
    /\ ~applied.done
    /\ applied' = [applied EXCEPT !.done = TRUE] @@ [result |-> result]
    /\ UNCHANGED <<builder, phase, book, calls, render, epub, latex, io, typeset>>

GetAuthors ==
    Return("get_authors",
           metadata_get_authors([NewMetadata(T_ABook) EXCEPT !.authors = applied.args]))

NextAuthors == GetAuthors

\* get_authors called on the metadata of a book with a list of authors
SpecAuthors == InitApplied("get_authors", AuthorLists) /\ [][NextAuthors]_vars

\* a backend collates the header it meets, collate_division_header(is_starred),
\* and asks for its joined label
GetJoinedLabel ==
    Return("get_joined_label",
           get_joined_label(collate_division_header(applied.args, 2, applied.args[1].starred)))

NextJoinedLabel == GetJoinedLabel

\* get_joined_label called on a collated division header
SpecJoinedLabel == InitApplied("get_joined_label", HeaderStreams) /\ [][NextJoinedLabel]_vars

FlattenFootnotes == Return("flatten_footnotes", flatten_footnotes(applied.args))

NextFlatten == FlattenFootnotes

\* flatten_footnotes called on a token sequence
SpecFlatten == InitApplied("flatten_footnotes", NoteSources) /\ [][NextFlatten]_vars

SpecTypeset == Init /\ [][NextTypeset]_vars

\* a book with chapters and appendices, processed, then rendered as LaTeX
NextAppendices ==
    \/ AddNoteFragment
    \/ AddAppendix
    \/ Process
    \/ RenderLatex

SpecAppendices == Init /\ [][NextAppendices]_vars

\* a book with images, processed, then rendered by the two backends
NextImages ==
    \/ AddImageFragment
    \/ Process
    \/ RenderEpub
    \/ RenderLatex

SpecImages == Init /\ [][NextImages]_vars

\* ============================================================ properties
\* --------------------------------------------------------------- observers
Processed == phase = "processed"

PositionsOf(contents, type) == {i \in 1..Len(contents) : contents[i].type = type}

CountOf(contents, be) == Cardinality({i \in 1..Len(contents) : contents[i] = be})

BeginTypes == {"BeginSemantic", "BeginDivisionHeader", "BeginTitlePage", "BeginTitlePageTitle",
               "BeginTitlePageSubTitle", "BeginEpigraphText", "BeginEpigraphSource"}

EndTypes == {"EndSemantic", "EndDivisionHeader", "EndTitlePage", "EndTitlePageTitle",
             "EndTitlePageSubTitle", "EndEpigraphText", "EndEpigraphSource"}

\* the End* marker that closes a Begin* marker
Closes(end, begin) ==
    CASE begin.type = "BeginSemantic" -> end.type = "EndSemantic" /\ end.role = begin.role
      [] begin.type = "BeginDivisionHeader" -> end.type = "EndDivisionHeader"
      [] begin.type = "BeginTitlePage" -> end.type = "EndTitlePage"
      [] begin.type = "BeginTitlePageTitle" -> end.type = "EndTitlePageTitle"
      [] begin.type = "BeginTitlePageSubTitle" -> end.type = "EndTitlePageSubTitle"
      [] begin.type = "BeginEpigraphText" -> end.type = "EndEpigraphText"
      [] begin.type = "BeginEpigraphSource" -> end.type = "EndEpigraphSource"

\* one step of the stack validator: push on a Begin* marker, pop on the End*
\* marker that closes the top of the stack; out is the fault met, if any
ValidateStep(be, stack) ==
    IF be.type \in BeginTypes THEN [out |-> <<>>, next |-> <<be>> \o stack]
    ELSE IF be.type \in EndTypes
    THEN (IF stack = <<>> THEN [out |-> <<"underflow">>, next |-> stack]
          ELSE IF ~Closes(be, Head(stack)) THEN [out |-> <<"crossing">>, next |-> stack]
          ELSE [out |-> <<>>, next |-> Tail(stack)])
    ELSE [out |-> <<>>, next |-> stack]

\* the validator over contents[lo..hi], entered with the given stack
RECURSIVE ValidateFrom(_, _, _, _)
ValidateFrom(contents, lo, hi, stack) ==
    IF lo > hi THEN [out |-> <<>>, next |-> stack]
    ELSE IF lo = hi THEN ValidateStep(contents[lo], stack)
    ELSE LET mid == (lo + hi) \div 2
             a == ValidateFrom(contents, lo, mid, stack)
             b == ValidateFrom(contents, mid + 1, hi, a.next)
         IN  [out |-> a.out \o b.out, next |-> b.next]

\* the stack validator: "ok", or what went wrong first
Validate(contents) ==
    LET v == ValidateFrom(contents, 1, Len(contents), <<>>)
    IN  IF v.out # <<>> THEN v.out[1]
        ELSE IF v.next = <<>> THEN "ok" ELSE "unclosed"

\* the index after the region that opens at i with a BeginSemantic or a
\* BeginTitlePage
AfterRegion(contents, i) ==
    IF contents[i].type = "BeginSemantic"
    THEN LET ends == {k \in (i + 1)..Len(contents) : contents[k] = EndSemantic(contents[i].role)}
         IN  IF ends = {} THEN Len(contents) + 1
             ELSE 1 + CHOOSE k \in ends : \A j \in ends : k <= j
    ELSE FirstFrom(contents, i, "EndTitlePage") + 1

\* the top-level item that event i is, if it lies in no region opened before
\* it (skip_to is the index after the last such region): a matter marker by
\* its type, a division by its role, the titlepage as "Titlepage", any other
\* top-level event as "Event"
TopLevelItem(contents, i, skip_to) ==
    LET be == contents[i]
    IN  IF i < skip_to THEN [out |-> <<>>, next |-> skip_to]
        ELSE IF be.type = "BeginSemantic"
        THEN [out |-> <<be.role>>, next |-> AfterRegion(contents, i)]
        ELSE IF be.type = "BeginTitlePage"
        THEN [out |-> <<"Titlepage">>, next |-> AfterRegion(contents, i)]
        ELSE IF be.type \in {"BeginFrontmatter", "BeginMainmatter", "BeginBackmatter"}
        THEN [out |-> <<be.type>>, next |-> skip_to]
        ELSE [out |-> <<"Event">>, next |-> skip_to]

RECURSIVE TopLevel(_, _, _, _)
TopLevel(contents, lo, hi, skip_to) ==
    IF lo > hi THEN [out |-> <<>>, next |-> skip_to]
    ELSE IF lo = hi THEN TopLevelItem(contents, lo, skip_to)
    ELSE LET mid == (lo + hi) \div 2
             a == TopLevel(contents, lo, mid, skip_to)
             b == TopLevel(contents, mid + 1, hi, a.next)
         IN  [out |-> a.out \o b.out, next |-> b.next]

Shape(contents) == TopLevel(contents, 1, Len(contents), 1).out

RolesIn(contents) == {Shape(contents)[i] : i \in 1..Len(Shape(contents))}

Indices(seq) == [i \in 1..Len(seq) |-> i]

\* where the divisions of a role begin, in stream order
DivisionStarts(contents, role) ==
    SelectSeq(Indices(contents), LAMBDA i : contents[i] = BeginSemantic(role))

\* the collated header of the Part or Chapter division that begins at i
HeaderOf(contents, i) == collate_division_header(contents, i + 2, contents[i + 1].starred)

\* the positions between the BeginDivisionHeader and the EndDivisionHeader of
\* the division that begins at i
HeaderRegion(contents, i) == (i + 2)..(FirstFrom(contents, i + 2, "EndDivisionHeader") - 1)

\* the Part and Chapter divisions of a stream, in order
Divisions(contents) == SelectSeq(Shape(contents), LAMBDA r : r \in {"Part", "Chapter"})

\* the levels of the headings of a token sequence, in order
HeadingLevelSeq(events) ==
    LET idx == SelectSeq(Indices(events), LAMBDA i : IsStart(events[i], "Heading"))
    IN  [k \in 1..Len(idx) |-> events[idx[k]].tag.level]

Rendering == phase = "rendering"

\* ---------------------------------------------------------------------- C1
\* C1: every stream returned by process() is balanced: a validator that pushes
\* on each Begin* region marker and pops on the End* marker that matches it
\* never underflows, never meets a crossing region and ends with an empty stack.
C1_Balance == Processed => Validate(book.contents) = "ok"

C1_Witness ==
    /\ Processed
    /\ CountOf(book.contents, BeginSemantic("Part")) >= 1
    /\ CountOf(book.contents, BeginSemantic("Chapter")) >= 2
    /\ Validate(book.contents) = "ok"

\* ---------------------------------------------------------------------- C2
\* C2: in every stream returned by process(), BeginFrontmatter comes before
\* BeginMainmatter, which comes before BeginBackmatter when there is one, and
\* none of the three markers occurs twice.
C2_MatterOrdering ==
    Processed =>
        LET f == PositionsOf(book.contents, "BeginFrontmatter")
            m == PositionsOf(book.contents, "BeginMainmatter")
            k == PositionsOf(book.contents, "BeginBackmatter")
        IN  /\ Cardinality(f) = 1 /\ Cardinality(m) = 1 /\ Cardinality(k) <= 1
            /\ \A i \in f, j \in m : i < j
            /\ \A i \in m, j \in k : i < j

C2_Witness ==
    /\ Processed
    /\ PositionsOf(book.contents, "BeginBackmatter") # {}
    /\ CountOf(book.contents, BeginSemantic("Chapter")) >= 1

\* ---------------------------------------------------------------------- C3
\* C3: the k-th Chapter division of the stream carries number k, whatever
\* Parts lie between the chapters: the chapter counter is not reset by a Part.
C3_ContinuousNumbering ==
    Processed =>
        LET starts == DivisionStarts(book.contents, "Chapter")
        IN  \A k \in 1..Len(starts) :
                /\ HeaderOf(book.contents, starts[k]).label_number = Some(k)
                /\ get_label_number(HeaderOf(book.contents, starts[k])) = Some(FormatArabic(k))

\* two parts of two level-2 headings each: chapters 1, 2, 3, 4
C3_Witness ==
    /\ Processed
    /\ calls.mainmatter = FragPart \o FragPart
    /\ Divisions(book.contents) = <<"Part", "Chapter", "Chapter", "Part", "Chapter", "Chapter">>
    /\ LET starts == DivisionStarts(book.contents, "Chapter")
       IN  [k \in 1..4 |-> get_label_number(HeaderOf(book.contents, starts[k]))]
              = <<Some(<<"1">>), Some(<<"2">>), Some(<<"3">>), Some(<<"4">>)>>

\* ---------------------------------------------------------------------- C4
\* C4: when the mainmatter has level-1 headings only, its divisions are one
\* Chapter per level-1 heading; when it has level-1 and level-2 headings, they
\* are one Part per level-1 heading and one Chapter per level-2 heading, in the
\* order of the headings, and the k-th Part is labelled with number k in Roman
\* format.
C4_Classification ==
    Processed =>
        LET levels == HeadingLevelSeq(calls.mainmatter)
            top    == SelectSeq(levels, LAMBDA l : l <= 2)
            parts  == DivisionStarts(book.contents, "Part")
        IN  /\ HeaderLevels(calls.mainmatter) = {1}
                => Divisions(book.contents) = [k \in 1..Len(levels) |-> "Chapter"]
            /\ {1, 2} \subseteq HeaderLevels(calls.mainmatter)
                => /\ Divisions(book.contents)
                        = [k \in 1..Len(top) |-> IF top[k] = 1 THEN "Part" ELSE "Chapter"]
                   /\ \A k \in 1..Len(parts) :
                        /\ HeaderOf(book.contents, parts[k]).label_number = Some(k)
                        /\ HeaderOf(book.contents, parts[k]).label_number_format = Some("Roman")

C4_Witness ==
    /\ Processed
    /\ HeaderLevels(calls.mainmatter) = {1, 2}
    /\ Divisions(book.contents) = <<"Part", "Chapter", "Chapter", "Part", "Chapter">>
    /\ get_joined_label(HeaderOf(book.contents, DivisionStarts(book.contents, "Part")[2]))
          = Some(<<"P","a","r","t"," ","I","I">>)

\* ---------------------------------------------------------------------- C5
\* C5, as stated: when the mainmatter has level-2 headings and no level-1
\* heading, the Parts/Chapters scheme is selected and the divisions are one
\* Chapter per level-2 heading, with or without deeper headings.
C5_Level2BecomesChapter ==
    (Processed /\ 2 \in HeaderLevels(calls.mainmatter) /\ 1 \notin HeaderLevels(calls.mainmatter))
        => /\ StepLevel_get(calls.mainmatter) = "TopToParts"
           /\ Divisions(book.contents)
                = [k \in 1..Len(SelectSeq(HeadingLevelSeq(calls.mainmatter), LAMBDA l : l = 2))
                     |-> "Chapter"]

\* ---------------------------------------------------------------------- C6
CountOfEpigraphEnds == CountOf(book.contents, EndSemantic("Epigraph"))

\* C6: the expected_epigraph_count of the book returned by process() is the
\* number of add_epigraph calls made (add_explicit_epigraph makes one), and
\* the stream holds that many EndSemantic(Epigraph) markers.
C6_EpigraphCount ==
    Processed =>
        /\ book.expected_epigraph_count = calls.add_epigraph
        /\ book.expected_epigraph_count = CountOfEpigraphEnds

C6_Witness ==
    /\ Processed
    /\ calls.add_epigraph = 2
    /\ CountOfEpigraphEnds = 2

\* ---------------------------------------------------------------------- C7
\* the title of a collated header, lower-cased, starts with its joined label
DuplicateTitle(h) ==
    /\ get_joined_label(h).some
    /\ get_title_text(h).some
    /\ starts_with(to_lowercase(get_title_text(h).val), to_lowercase(get_joined_label(h).val))

ChapterHeaderWritten ==
    Rendering /\ render.header.some /\ render.current_division = Some("Chapter")

\* C7, as stated: a chapter header whose lower-cased title starts with its
\* joined label is written as the label alone, the title being suppressed.
C7_LabelOnly ==
    (ChapterHeaderWritten /\ DuplicateTitle(render.header.val))
        => /\ Len(render.target) = 1
           /\ to_lowercase(render.target[1].text)
                = to_lowercase(get_joined_label(render.header.val).val)

\* C7, amended: a chapter header whose lower-cased title starts with its
\* joined label is written as the title alone, in full, in the heading
\* element; it is the separate label paragraph that is suppressed.
C7_TitleOnly ==
    (ChapterHeaderWritten /\ DuplicateTitle(render.header.val))
        => render.target = <<[el |-> "heading", text |-> get_title_text(render.header.val).val]>>

C7_Witness ==
    /\ ChapterHeaderWritten
    /\ DuplicateTitle(render.header.val)
    /\ get_joined_label(render.header.val) = Some(T_Chapter1)
    /\ render.target = <<[el |-> "heading", text |-> T_Chapter1Wolves]>>

\* ---------------------------------------------------------------------- C8
T_ABookUpper == <<"A"," ","B","O","O","K">>

\* C8: a builder titled "A Book", given "# Hello\n\nText" by one add_mainmatter
\* call and nothing else, is assembled into BeginFrontmatter, a halftitle, a
\* titlepage that collates to the title "A BOOK", a copyright page,
\* BeginMainmatter and one Chapter, labelled "Chapter 1", titled "Hello", whose
\* body is the paragraph "Text".
C8_Scenario ==
    (Processed /\ calls.ops = 1 /\ calls.mainmatter = FragHello /\ book.metadata.title = T_ABook)
        => LET c  == book.contents
               tp == FirstFrom(c, 1, "BeginTitlePage")
               ch == FirstFrom(c, 1, "BeginMainmatter") + 1
               h  == HeaderOf(c, ch)
           IN  /\ Shape(c) = <<"BeginFrontmatter", "Halftitle", "Titlepage", "Copyrightpage",
                               "BeginMainmatter", "Chapter">>
               /\ collate_titlepage(c, tp + 1).title = <<Text(T_ABookUpper)>>
               /\ c[ch] = BeginSemantic("Chapter")
               /\ get_joined_label(h) = Some(T_Chapter1)
               /\ get_title_text(h) = Some(T_Hello)
               /\ SubSeq(c, h.next, Len(c) - 1) = ToBookEvents(Para(T_Text))
               /\ c[Len(c)] = EndSemantic("Chapter")

C8_Witness ==
    /\ Processed
    /\ calls.ops = 1
    /\ calls.mainmatter = FragHello
    /\ book.metadata.title = T_ABook
    /\ collate_titlepage(book.contents,
                         FirstFrom(book.contents, 1, "BeginTitlePage") + 1).title
          = <<Text(T_ABookUpper)>>
    /\ Divisions(book.contents) = <<"Chapter">>

\* ---------------------------------------------------------------------- C9
\* C9: after change_headers with the chapter format TitleAlone, the Chapter
\* divisions are where they were, no event of a Chapter header is a
\* DivisionHeaderLabel (each label has become Null), every other event of the
\* header is as it was, and so the header collates to the same title.
C9_TitleAlone ==
    (Rendering /\ render.format.chapter_header_format = "TitleAlone")
        => LET starts == DivisionStarts(book.contents, "Chapter")
           IN  /\ starts = DivisionStarts(render.before, "Chapter")
               /\ Len(book.contents) = Len(render.before)
               /\ \A k \in 1..Len(starts) :
                    /\ HeaderRegion(book.contents, starts[k])
                          = HeaderRegion(render.before, starts[k])
                    /\ \A j \in HeaderRegion(book.contents, starts[k]) :
                          /\ book.contents[j].type # "DivisionHeaderLabel"
                          /\ render.before[j].type = "DivisionHeaderLabel"
                                => book.contents[j] = Null
                          /\ render.before[j].type # "DivisionHeaderLabel"
                                => book.contents[j] = render.before[j]
                    /\ HeaderOf(book.contents, starts[k]).text
                          = HeaderOf(render.before, starts[k]).text

C9_Witness ==
    /\ Rendering
    /\ render.format.chapter_header_format = "TitleAlone"
    /\ calls.mainmatter = FragCode
    /\ LET i == DivisionStarts(book.contents, "Chapter")[1]
       IN  /\ render.before[i + 2] = ChapterLabel(1)
           /\ book.contents[i + 2] = Null
           /\ HeaderOf(book.contents, i).text
                 = Some(<<Start(Tag("Emphasis")), Text(T_Hello), End(Tag("Emphasis")),
                          Code(T_Hi)>>)

\* --------------------------------------------------------------------- C10
Rank(item) ==
    CASE item = "BeginFrontmatter" -> 0
      [] item = "Halftitle" -> 1
      [] item = "Titlepage" -> 2
      [] item = "Copyrightpage" -> 3
      [] item = "Dedication" -> 4
      [] item = "Foreword" -> 5
      [] item \in {"Epigraph", "Introduction"} -> 6
      [] item = "Preface" -> 7
      [] item \in {"BeginMainmatter", "Part", "Chapter", "Event"} -> 8
      [] item = "BeginBackmatter" -> 9
      [] item = "Appendix" -> 10
      [] item = "Afterword" -> 11
      [] item = "Acknowledgements" -> 12
      [] item = "Colophon" -> 13

\* C10: whatever the order of the builder calls, the divisions of the stream
\* come in the canonical order of roles: halftitle, titlepage, copyright page,
\* dedication, forewords, epigraphs and introductions, prefaces, mainmatter,
\* appendices, afterwords, acknowledgements, colophon. Epigraphs and
\* introductions are not interleaved, and which of the two comes first is
\* decided by the metadata (whether an introduction has authors), not by the
\* order of the calls.
C10_CanonicalOrder ==
    Processed =>
        LET shape == Shape(book.contents)
        IN  /\ \A i, j \in 1..Len(shape) : i < j => Rank(shape[i]) <= Rank(shape[j])
            /\ \A i, j \in 1..Len(shape) :
                (i < j /\ shape[i] = "Introduction" /\ shape[j] = "Epigraph")
                    => ~has_no_introduction_authors(book.metadata)
            /\ \A i, j \in 1..Len(shape) :
                (i < j /\ shape[i] = "Epigraph" /\ shape[j] = "Introduction")
                    => has_no_introduction_authors(book.metadata)

C10_Witness ==
    /\ Processed
    /\ calls.ops = 3
    /\ {"Epigraph", "Introduction", "Afterword"} \subseteq RolesIn(book.contents)
    /\ ~has_no_introduction_authors(book.metadata)

\* --------------------------------------------------------------------- C11
\* C11: the stream returned by process() holds exactly one BeginFrontmatter
\* and exactly one BeginMainmatter, and it holds a BeginBackmatter exactly when
\* an appendix, an afterword, acknowledgements or a colophon was added to the
\* builder.
C11_MatterMarkers ==
    Processed =>
        /\ CountOf(book.contents, Marker("BeginFrontmatter")) = 1
        /\ CountOf(book.contents, Marker("BeginMainmatter")) = 1
        /\ (CountOf(book.contents, Marker("BeginBackmatter")) >= 1) <=> calls.backmatter

\* a colophon alone brings the marker
C11_Witness ==
    /\ Processed
    /\ calls.ops = 1
    /\ calls.backmatter
    /\ RolesIn(book.contents) \cap {"Appendix", "Afterword", "Acknowledgements", "Colophon"}
          = {"Colophon"}
    /\ CountOf(book.contents, Marker("BeginBackmatter")) = 1

\* --------------------------------------------------------------------- C12
\* C12: the expected_appendices_count of the book returned by process() is the
\* number of Appendix divisions of its contents, so a count of the Appendix
\* divisions met reaches it at the last one and not before.
C12_AppendicesCount ==
    Processed =>
        /\ book.expected_appendices_count = CountOf(book.contents, BeginSemantic("Appendix"))
        /\ book.expected_appendices_count = CountOf(book.contents, EndSemantic("Appendix"))

C12_Witness ==
    /\ Processed
    /\ book.expected_appendices_count = 2
    /\ CountOf(book.contents, BeginSemantic("Appendix")) = 2

\* --------------------------------------------------------------------- C13
\* an event that carries title text: a Text event or an inline code span
CarriesText(be) == be.type = "Event" /\ be.event.kind \in {"Text", "Code"}

\* C13, as stated: after change_headers with the chapter format NumberAlone or
\* LabelAlone, no event of a Chapter header carries text, be it plain,
\* emphasised or inline code, and each label of the header has the chosen
\* number_format and the label text it had before.
C13_TitleErased ==
    (Rendering /\ render.format.chapter_header_format \in {"NumberAlone", "LabelAlone"})
        => LET starts == DivisionStarts(book.contents, "Chapter")
           IN  \A k \in 1..Len(starts) :
                 \A j \in HeaderRegion(book.contents, starts[k]) :
                    /\ ~CarriesText(book.contents[j])
                    /\ render.before[j].type = "DivisionHeaderLabel"
                          => /\ book.contents[j].type = "DivisionHeaderLabel"
                             /\ book.contents[j].number_format
                                   = render.format.chapter_number_format
                             /\ book.contents[j].text = render.before[j].text

\* --------------------------------------------------------------------- C14
\* the positions inside the headers of the Chapter and Part divisions
ChapterAndPartHeaderPositions(contents) ==
    UNION { HeaderRegion(contents, i) :
              i \in { k \in 1..Len(contents) :
                        contents[k] \in {BeginSemantic("Chapter"), BeginSemantic("Part")} } }

\* C14: change_headers keeps the length of the stream; an event outside the
\* headers of the Chapter and Part divisions, the headers of all other roles
\* included, is as it was; an event inside one is as it was, or is a label
\* that is still a label, or has become Null in its place.
C14_Frame ==
    Rendering =>
        LET inside == ChapterAndPartHeaderPositions(render.before)
        IN  /\ Len(book.contents) = Len(render.before)
            /\ \A j \in 1..Len(render.before) :
                  IF j \in inside
                  THEN \/ book.contents[j] = render.before[j]
                       \/ book.contents[j] = Null
                       \/ /\ render.before[j].type = "DivisionHeaderLabel"
                          /\ book.contents[j].type = "DivisionHeaderLabel"
                  ELSE book.contents[j] = render.before[j]

C14_Witness ==
    /\ Rendering
    /\ render.format.chapter_header_format = "NumberAlone"
    /\ render.format.chapter_number_format = "Roman"
    /\ LET c == DivisionStarts(render.before, "Chapter")
           a == DivisionStarts(render.before, "Appendix")
       IN  /\ Len(c) > 0 /\ Len(a) > 0
           /\ \E j \in HeaderRegion(render.before, c[1]) :
                 IsText(render.before[j]) /\ book.contents[j] = Null
           /\ \E j \in HeaderRegion(render.before, a[1]) :
                 /\ render.before[j].type = "DivisionHeaderLabel"
                 /\ book.contents[j] = render.before[j]
           /\ \E j \in HeaderRegion(render.before, a[1]) :
                 IsText(render.before[j]) /\ book.contents[j] = render.before[j]

\* --------------------------------------------------------------------- C15
\* the destinations of the images of a stream
ImageDests(contents) ==
    {contents[k].event.tag.dest : k \in {j \in 1..Len(contents) : IsStartImage(contents[j])}}

\* an image format the EPUB backend neither supports nor converts
EpubUnsupported(p) == ~is_epub_supported_image(p) /\ ~is_pdf(p)

\* an image format the LaTeX backend neither supports nor converts
LatexUnsupported(p) == ~is_latex_supported_image(p) /\ ~is_svg(p)

\* the EPUB half of C15: a render of a stream that holds an image of an
\* unsupported format ends with an error
C15_EpubFatal ==
    (epub.done /\ \E p \in ImageDests(epub.given) : EpubUnsupported(p))
        => epub.result.status = "Err"

\* C15, as stated: in the EPUB backend and in the LaTeX backend alike, a
\* render of a stream that holds an image of an unsupported format, which
\* cannot be converted, ends with an error and produces no output.
C15_UnsupportedImageFatal ==
    /\ C15_EpubFatal
    /\ (latex.done /\ \E p \in ImageDests(latex.given) : LatexUnsupported(p))
          => latex.result.status = "Err"

\* --------------------------------------------------------------------- C16
\* C16: a *_from_file operation given a path that is not of a markdown type
\* returns an error, and the builder is as it was before the call: no buffer,
\* counter, metadata or image directory has changed.
C16_NonMarkdownLeavesBuilder ==
    (phase = "building" /\ io.status # "none" /\ ~is_markdown(io.path))
        => /\ io.status = "Err"
           /\ io.error = "Non-markdown file"
           /\ builder = io.before

C16_Witness ==
    /\ phase = "building"
    /\ io.status = "Err"
    /\ ~is_markdown(io.path)
    /\ builder.image_dirs = {"book"}
    /\ builder.appendices_count = 1
    /\ builder.mainmatter # <<>>
    /\ builder = io.before

\* --------------------------------------------------------------------- C17
\* the Book Source as process() assembled it, from the history of the calls
Assembled == ProcessResult(add_mainmatter(NewBuilder(T_ABook), calls.mainmatter))

IsNoteStart(be) == be.type = "Event" /\ IsStart(be.event, "FlattenedFootnote")

IsNoteEnd(be) == be.type = "Event" /\ IsEnd(be.event, "FlattenedFootnote")

IsNoteReference(be) == be.type = "Event" /\ be.event.kind = "FootnoteReference"

IsDefinitionStart(be) ==
    be.type = "Event" /\ be.event.kind = "Start" /\ be.event.tag.name = "FootnoteDefinition"

IsDefinitionEnd(be) ==
    be.type = "Event" /\ be.event.kind = "End" /\ be.event.tag.name = "FootnoteDefinition"

\* the positions of a stream, in order, where P holds
PositionsWhere(stream, P(_)) ==
    SelectSeq([k \in 1..Len(stream) |-> k], LAMBDA k : P(stream[k]))

\* the first position after i where P holds
FirstAfter(stream, i, P(_)) ==
    LET at == {k \in (i + 1)..Len(stream) : P(stream[k])}
    IN  IF at = {} THEN Len(stream) + 1 ELSE CHOOSE k \in at : \A j \in at : k <= j

\* the positions that belong to a span opened by a Start and closed by the
\* next End, both included
Within(stream, S(_), E(_)) ==
    {k \in 1..Len(stream) :
        \E i \in 1..k : S(stream[i]) /\ k <= FirstAfter(stream, i, E)}

NoteMark == [type |-> "Note"]

\* the stream given to preprocess with every footnote span replaced by a mark
SpansMarked(src) ==
    LET spans == Within(src, IsNoteStart, IsNoteEnd)
        kept  == SelectSeq([k \in 1..Len(src) |-> k],
                           LAMBDA k : k \notin spans \/ IsNoteStart(src[k]))
    IN  [n \in 1..Len(kept) |-> IF IsNoteStart(src[kept[n]]) THEN NoteMark ELSE src[kept[n]]]

\* the preprocessed stream without its footnote definitions, with every
\* footnote reference replaced by a mark
ReferencesMarked(ev) ==
    LET defs == Within(ev, IsDefinitionStart, IsDefinitionEnd)
        kept == SelectSeq([k \in 1..Len(ev) |-> k], LAMBDA k : k \notin defs)
    IN  [n \in 1..Len(kept) |-> IF IsNoteReference(ev[kept[n]]) THEN NoteMark ELSE ev[kept[n]]]

EpubRendered == epub.done /\ epub.result.status = "Ok"

\* each span is replaced by one reference at its position, and has one
\* definition, which carries the content of the span
NotesReplaced ==
    EpubRendered =>
        LET src   == epub.result.contents
            ev    == epub.result.events
            spans == PositionsWhere(src, IsNoteStart)
            refs  == PositionsWhere(ev, IsNoteReference)
        IN  /\ ReferencesMarked(ev) = SpansMarked(src)
            /\ \A n \in 1..Len(refs) :
                  LET m    == ev[refs[n]].event.marker
                      defs == {d \in 1..Len(ev) : ev[d] = BEvent(Start(FootnoteDefinition(m)))}
                  IN  /\ Cardinality(defs) = 1
                      /\ \A d \in defs :
                            SubSeq(ev, d + 1, FirstAfter(ev, d, IsDefinitionEnd) - 1)
                              = SubSeq(src, spans[n] + 1,
                                       FirstAfter(src, spans[n], IsNoteEnd) - 1)

\* the definition of each reference is among the definitions that close the
\* division the reference is in
NotesCloseTheirDivision ==
    EpubRendered =>
        LET ev   == epub.result.events
            defs == Within(ev, IsDefinitionStart, IsDefinitionEnd)
        IN  \A r \in 1..Len(ev) :
              IsNoteReference(ev[r]) =>
                \E d \in (r + 1)..Len(ev), e \in (r + 1)..Len(ev) :
                    /\ ev[d] = BEvent(Start(FootnoteDefinition(ev[r].event.marker)))
                    /\ d < e
                    /\ ev[e].type = "EndSemantic"
                    /\ \A j \in r..(e - 1) : ev[j].type \notin {"BeginSemantic", "EndSemantic"}
                    /\ \A j \in d..(e - 1) : j \in defs
                    /\ \E b \in 1..r : ev[b].type = "BeginSemantic" /\ ev[b].role = ev[e].role
                                          /\ \A j \in (b + 1)..r : ev[j].type # "EndSemantic"

\* the definition of each reference is written on the page of the reference
NotesOnPageOfReference ==
    EpubRendered =>
        \A p \in 1..Len(epub.result.pages) :
            LET content == epub.result.pages[p].content
            IN  \A k \in 1..Len(content) :
                  content[k].kind = "FootnoteReference" =>
                    \E d \in 1..Len(content) :
                        content[d] = Start(FootnoteDefinition(content[k].marker))

\* C18: in the EPUB backend every flattened-footnote span of the stream is
\* replaced by one footnote reference at its position and one footnote
\* definition with the content of the span; the definition is emitted at the end
\* of the division that encloses the reference, before its EndSemantic, and
\* is rendered on the page of its reference
C18_NoteOnPageOfReference ==
    /\ NotesReplaced
    /\ NotesCloseTheirDivision
    /\ NotesOnPageOfReference

\* --------------------------------------------------------------------- C19
LatexRendered == latex.done /\ latex.result.status = "Ok"

OpeningCommands == {"addcontentsline_toc_part", "setcounter_chapter", "renewcommand_thechapter"}

\* the positions of the headers of the appendices in a stream, in order
AppendixHeaders(contents) ==
    SelectSeq([k \in 1..Len(contents) |-> k],
              LAMBDA k : /\ contents[k].type = "BeginDivisionHeader"
                         /\ k > 1
                         /\ contents[k - 1] = BeginSemantic("Appendix"))

\* what the writer of the render wrote at position i of the stream
WrittenAt(i) ==
    LET contents == latex.result.contents
        w0 == NewLatexWriter(book.expected_epigraph_count,
                             book.expected_appendices_count, TRUE)
        w  == LatexWriteFrom(contents, 1, i - 1, w0, "ok").next
    IN  LatexWriteStep(contents, i, w, "ok").out

CommandCount(output, cmd) == Cardinality({k \in 1..Len(output) : output[k].cmd = cmd})

\* C19: in a LaTeX render of a book with one or more appendices, the reset of
\* the chapter counter to 0, the switch to letter numbering and the
\* "Appendices" entry of the table of contents are written once, at the
\* header of the first appendix, and at the header of no later appendix
C19_AppendicesOpenedOnce ==
    (LatexRendered /\ book.expected_appendices_count >= 1) =>
        LET headers == AppendixHeaders(latex.result.contents)
            first   == WrittenAt(headers[1])
        IN  /\ Len(headers) = book.expected_appendices_count
            /\ Len(first) >= 3
            /\ SubSeq(first, 1, 3) = <<Piece("addcontentsline_toc_part", "Appendices"),
                                       Piece("setcounter_chapter", 0),
                                       Piece("renewcommand_thechapter", "Alph")>>
            /\ \A k \in 4..Len(first) : first[k].cmd \notin OpeningCommands
            /\ \A n \in 2..Len(headers) :
                  LET later == WrittenAt(headers[n])
                  IN  \A k \in 1..Len(later) : later[k].cmd \notin OpeningCommands
            /\ CommandCount(latex.result.output, "addcontentsline_toc_part") = 1
            /\ CommandCount(latex.result.output, "renewcommand_thechapter") = 1

\* a LaTeX render of a book with two appendices or more
C19_Witness ==
    /\ LatexRendered
    /\ book.expected_appendices_count >= 2
    /\ Len(AppendixHeaders(latex.result.contents)) >= 2
    /\ CommandCount(latex.result.output, "addcontentsline_toc_part") = 1

\* --------------------------------------------------------------------- C20
ToolchainFailed ==
    typeset.last.done /\ typeset.last.run.written /\ typeset.last.run.spawned
        /\ typeset.last.run.status # 0

\* the log of the text of the last call, if the output directory has one
LogOfLast == FileAt(typeset.outdir, hash_to_string(typeset.last.tex), "log")

\* C20: whenever the typesetting process exits with a non-zero status, the
\* PDF render returns an error, whose detail is the content of the log file of
\* the toolchain, or a generic message if there is no log file; it returns
\* no PDF bytes
C20_FailureIsError ==
    ToolchainFailed =>
        /\ typeset.last.result.status = "Err"
        /\ typeset.last.result.detail.kind # "pdf"
        /\ IF LogOfLast = {} THEN typeset.last.result.detail = ErrorWithoutLog
           ELSE \E g \in LogOfLast : typeset.last.result.detail = g.content

\* --------------------------------------------------------------------- C21
\* the events of seq occur in contents, one after the other
OccursIn(seq, contents) ==
    \E i \in 0..(Len(contents) - Len(seq)) : SubSeq(contents, i + 1, i + Len(seq)) = seq

\* the halftitle and the copyright pages that the operations of the model set
ExplicitHalftitles ==
    {set_halftitle(NewBuilder(T_ABook), t).halftitle : t \in InlineTexts}

ExplicitCopyrightPages ==
    {add_copyright_page(NewBuilder(T_ABook), Para(T_Text), title).copyright_page :
        title \in {None, Some(<<Text(T_Hello)>>)}}

\* C21: do_not_generate_halftitle, do_not_generate_titlepage and
\* do_not_generate_copyrightpage suppress automatic generation alone: a
\* halftitle or a copyright page that was set explicitly on the builder is in
\* the assembled stream, whether the page was suppressed before or after
C21_ExplicitPagesKept ==
    phase = "processed" =>
        /\ calls.set_halftitle =>
              \E h \in ExplicitHalftitles : OccursIn(h, book.contents)
        /\ calls.add_copyright_page =>
              \E c \in ExplicitCopyrightPages : OccursIn(c, book.contents)

\* --------------------------------------------------------------------- C22
\* C22: after change_headers with the chapter format NumberAlone, a chapter
\* is represented by its number alone: the collated header of every numbered
\* Chapter division joins to the number, without the label word, and has no
\* title
C22_NumberAlone ==
    (Rendering /\ render.format.chapter_header_format = "NumberAlone")
        => LET starts == DivisionStarts(book.contents, "Chapter")
           IN  \A k \in 1..Len(starts) :
                 LET h == HeaderOf(book.contents, starts[k])
                 IN  h.label_number.some =>
                       /\ get_joined_label(h) = get_label_number(h)
                       /\ ~get_title_text(h).some

\* --------------------------------------------------------------------- C23
IsReference(e) == e.kind = "FootnoteReference"

IsDefinitionOpen(e) == e.kind = "Start" /\ e.tag.name = "FootnoteDefinition"

IsDefinitionClose(e) == e.kind = "End" /\ e.tag.name = "FootnoteDefinition"

IsSpanOpen(e) == IsStart(e, "FlattenedFootnote")

IsSpanClose(e) == IsEnd(e, "FlattenedFootnote")

Flattened == applied.fn = "flatten_footnotes" /\ applied.done

\* the positions of src outside every definition, in order
OutsideDefinitions(src) ==
    LET defs == Within(src, IsDefinitionOpen, IsDefinitionClose)
    IN  SelectSeq([k \in 1..Len(src) |-> k], LAMBDA k : k \notin defs)

\* the contents of the definitions of src that have the marker m
DefinitionsOf(src, m) ==
    {UnwrappedDefinition(SubSeq(src, d + 1, FirstAfter(src, d, IsDefinitionClose) - 1)) :
        d \in {k \in 1..Len(src) : src[k] = Start(FootnoteDefinition(m))}}

\* the output holds no footnote reference and no footnote definition
FlattenedHasNoReference ==
    Flattened =>
        \A k \in 1..Len(applied.result) :
            LET e == applied.result[k]
            IN  ~IsReference(e) /\ ~IsDefinitionOpen(e) /\ ~IsDefinitionClose(e)

\* the output is the input without its definitions, with a span where each
\* reference was
FlattenedInPlace ==
    Flattened =>
        LET src   == applied.args
            out   == applied.result
            at    == OutsideDefinitions(src)
            spans == Within(out, IsSpanOpen, IsSpanClose)
            kept  == SelectSeq([k \in 1..Len(out) |-> k],
                               LAMBDA k : k \notin spans \/ IsSpanOpen(out[k]))
        IN  [n \in 1..Len(kept) |-> IF IsSpanOpen(out[kept[n]]) THEN NoteMark ELSE out[kept[n]]]
              = [n \in 1..Len(at) |-> IF IsReference(src[at[n]]) THEN NoteMark ELSE src[at[n]]]

\* the span of each reference, the second to a marker as the first, holds the
\* content of the definition of its marker, or an empty text if there is none
FlattenedContent ==
    Flattened =>
        LET src   == applied.args
            out   == applied.result
            at    == OutsideDefinitions(src)
            refs  == SelectSeq(at, LAMBDA k : IsReference(src[k]))
            opens == PositionsWhere(out, IsSpanOpen)
        IN  /\ Len(opens) = Len(refs)
            /\ \A n \in 1..Len(refs) :
                  LET content == SubSeq(out, opens[n] + 1,
                                        FirstAfter(out, opens[n], IsSpanClose) - 1)
                      defs    == DefinitionsOf(src, src[refs[n]].marker)
                  IN  IF defs = {} THEN content = <<Text(<<>>)>> ELSE content \in defs

\* C23: flatten_footnotes replaces every footnote reference, a second
\* reference to a marker included, by a flattened-footnote span at the same
\* position, which holds the content of the definition with that marker, or
\* an empty text when there is no such definition; its output holds no
\* footnote reference and no footnote definition
C23_Flattened ==
    /\ FlattenedInPlace
    /\ FlattenedContent
    /\ FlattenedHasNoReference

\* --------------------------------------------------------------------- C24
\* "Name, Name and Name": the names but the last separated by ", ", the last
\* joined to the one before it by " and "
RECURSIVE NamesAndName(_, _)
NamesAndName(names, i) ==
    IF i = Len(names) THEN <<" ", "a", "n", "d", " ">> \o names[i]
    ELSE (IF i = 1 THEN names[i] ELSE <<",", " ">> \o names[i]) \o NamesAndName(names, i + 1)

\* C24: get_authors returns the names of the authors in the format "Name,
\* Name and Name": for two authors or more the names are separated by ", "
\* but the last, which is joined to the one before it by " and "
C24_AuthorsJoined ==
    (applied.fn = "get_authors" /\ applied.done /\ Len(applied.args) >= 2)
        => applied.result = Some(NamesAndName(applied.args, 1))

\* --------------------------------------------------------------------- C25
\* the regions the collation combinators consume
RegionKinds == {"TitlePage", "DivisionHeader", "Epigraph", "FlattenedFootnote", "Image"}

\* be is the start marker of a region of the kind
OpensRegion(be, kind) ==
    CASE kind = "TitlePage" -> be.type = "BeginTitlePage"
      [] kind = "DivisionHeader" -> be.type = "BeginDivisionHeader"
      [] kind = "Epigraph" -> be = BeginSemantic("Epigraph")
      [] kind = "FlattenedFootnote" ->
            be.type = "Event" /\ IsStart(be.event, "FlattenedFootnote")
      [] kind = "Image" -> IsStartImage(be)

\* be is the end marker of a region of the kind
ClosesRegion(be, kind) ==
    CASE kind = "TitlePage" -> be.type = "EndTitlePage"
      [] kind = "DivisionHeader" -> be.type = "EndDivisionHeader"
      [] kind = "Epigraph" -> be = EndSemantic("Epigraph")
      [] kind = "FlattenedFootnote" ->
            be.type = "Event" /\ IsEnd(be.event, "FlattenedFootnote")
      [] kind = "Image" -> IsEndImage(be)

\* the position of the end marker that matches the start marker just before
\* j, depth regions of the kind being open inside it; Len + 1 when there is
\* none
RECURSIVE MatchingEnd(_, _, _, _)
MatchingEnd(contents, j, depth, kind) ==
    IF j > Len(contents) THEN j
    ELSE IF OpensRegion(contents[j], kind) THEN MatchingEnd(contents, j + 1, depth + 1, kind)
    ELSE IF ClosesRegion(contents[j], kind)
    THEN (IF depth = 0 THEN j ELSE MatchingEnd(contents, j + 1, depth - 1, kind))
    ELSE MatchingEnd(contents, j + 1, depth, kind)

\* where the combinator of the kind leaves the cursor when it is called with
\* the cursor at i
CursorAfter(contents, i, kind) ==
    CASE kind = "TitlePage" -> collate_titlepage(contents, i).next
      [] kind = "DivisionHeader" ->
            collate_division_header(contents, i, contents[i - 1].starred).next
      [] kind = "Epigraph" -> collate_epigraph(contents, i).next
      [] kind = "FlattenedFootnote" -> collect_plain_until_end_of_footnote(contents, i).next
      [] kind = "Image" -> collate_image(contents, i).next

\* the start markers of the kind in the stream
RegionStarts(contents, kind) == {i \in 1..Len(contents) : OpensRegion(contents[i], kind)}

\* the combinator of the kind, called just after the start marker at i, moves
\* forward and leaves the cursor just after the matching end marker
StopsAtMatchingEnd(contents, i, kind) ==
    LET next == CursorAfter(contents, i + 1, kind)
    IN  /\ next > i
        /\ next = After(contents, MatchingEnd(contents, i + 1, 0, kind))

\* the stream holds a region of the kind inside a region of the same kind
NestsRegion(contents, kind) ==
    \E i \in RegionStarts(contents, kind) :
        \E j \in (i + 1)..(MatchingEnd(contents, i + 1, 0, kind) - 1) :
            OpensRegion(contents[j], kind)

\* C25: each collation combinator, called with the cursor just after the
\* start marker of its region, only moves forward and consumes the events up
\* to and including the end marker that matches that start marker, and
\* nothing beyond it: the next event the caller reads is the one that
\* immediately follows the region
C25_CollationStopsAtMatchingEnd ==
    latex.done =>
        \A kind \in RegionKinds : \A i \in RegionStarts(latex.given, kind) :
            StopsAtMatchingEnd(latex.given, i, kind)

\* the same for the streams in which no region holds a region of its kind
C25_Unnested ==
    latex.done =>
        \A kind \in RegionKinds :
            ~NestsRegion(latex.given, kind) =>
                \A i \in RegionStarts(latex.given, kind) :
                    StopsAtMatchingEnd(latex.given, i, kind)

\* a render of a stream that holds a region of each kind
C25_Witness ==
    /\ latex.done
    /\ \A kind \in RegionKinds : RegionStarts(latex.given, kind) # {}

\* --------------------------------------------------------------------- C26
\* the header the joined label was asked of
HeaderApplied == collate_division_header(applied.args, 2, applied.args[1].starred)

JoinedLabelReturned == applied.fn = "get_joined_label" /\ applied.done

C26_StarredHasNoLabelText ==
    (JoinedLabelReturned /\ HeaderApplied.is_starred) =>
        applied.result = get_label_number(HeaderApplied)

\* --------------------------------------------------------------------- C27
\* the positions of a LaTeX output where the environment is begun or ended
EnvironmentAt(output, cmd, name) ==
    {k \in 1..Len(output) : output[k].cmd = cmd /\ output[k].arg = name}

IsEpigraphStart(be) == be = BeginSemantic("Epigraph")

\* C27: in a LaTeX render of a book the builder made with one or more
\* epigraphs, the shared epigraphs environment is begun once, as the first
\* thing written at the first epigraph, and ended once, as the last thing
\* written at the last epigraph: the begin comes before the end, no epigraph
\* is written outside the two, and the environment is not left open
C27_EpigraphsEnvironmentOnce ==
    (LatexRendered /\ book.expected_epigraph_count >= 1) =>
        LET starts == PositionsWhere(latex.result.contents, IsEpigraphStart)
            first  == WrittenAt(starts[1])
            last   == WrittenAt(starts[Len(starts)])
            begins == EnvironmentAt(latex.result.output, "begin", "epigraphs")
            ends   == EnvironmentAt(latex.result.output, "end", "epigraphs")
        IN  /\ Len(starts) = book.expected_epigraph_count
            /\ Cardinality(begins) = 1
            /\ Cardinality(ends) = 1
            /\ \A b \in begins : \A e \in ends : b < e
            /\ first[1] = Piece("begin", "epigraphs")
            /\ last[Len(last)] = Piece("end", "epigraphs")
            /\ \A n \in 1..Len(starts) :
                  LET written == WrittenAt(starts[n])
                  IN  /\ \A k \in 2..Len(written) :
                            ~(written[k].cmd = "begin" /\ written[k].arg = "epigraphs")
                      /\ \A k \in 1..(Len(written) - 1) :
                            ~(written[k].cmd = "end" /\ written[k].arg = "epigraphs")
                      /\ n > 1 => ~(written[1].cmd = "begin" /\ written[1].arg = "epigraphs")
                      /\ n < Len(starts) =>
                            ~(written[Len(written)].cmd = "end"
                              /\ written[Len(written)].arg = "epigraphs")

\* a LaTeX render of a book with two epigraphs or more
C27_Witness ==
    /\ LatexRendered
    /\ book.expected_epigraph_count >= 2
    /\ Cardinality(EnvironmentAt(latex.result.output, "begin", "epigraphs")) = 1
    /\ Cardinality(EnvironmentAt(latex.result.output, "end", "epigraphs")) = 1

\* --------------------------------------------------------------------- C28
\* the rank of the name written at position k among the names written up to
\* there, in the order in which they first occur
RankOfNote(notes, k) ==
    LET first == CHOOSE j \in 1..k :
                    /\ notes[j].marker = notes[k].marker
                    /\ \A i \in 1..(j - 1) : notes[i].marker # notes[k].marker
    IN  Cardinality({notes[j].marker : j \in 1..first})

\* the footnote numbers written in the render, page after page
NotesOfRender == Flatten([p \in 1..Len(epub.result.pages) |-> epub.result.pages[p].notes])

\* the pages of the render that hold a footnote
NotedPages == {p \in 1..Len(epub.result.pages) : epub.result.pages[p].notes # <<>>}

\* C28 as stated: the EPUB backend keeps one running footnote number map for
\* the whole render: the numbers go on increasing from one page to the next
\* and do not restart at 1 on each page
C28_NumbersRunOn ==
    EpubRendered =>
        \A k \in 1..Len(NotesOfRender) :
            NotesOfRender[k].number = RankOfNote(NotesOfRender, k)

\* C28, amended: the EPUB backend keeps one footnote number map for each
\* page: on every page the footnotes are numbered from 1 in the order in which
\* their names first occur on that page, a definition has the number of its
\* reference, and the numbers restart at 1 on the next page
C28_NumbersPerPage ==
    EpubRendered =>
        \A p \in 1..Len(epub.result.pages) :
            LET notes == epub.result.pages[p].notes
            IN  /\ \A k \in 1..Len(notes) : notes[k].number = RankOfNote(notes, k)
                /\ notes # <<>> => notes[1].number = 1

\* a render with footnotes on two pages, one of which holds two footnotes
C28_Witness ==
    /\ EpubRendered
    /\ Cardinality(NotedPages) >= 2
    /\ \E p \in NotedPages :
          \E k \in 1..Len(epub.result.pages[p].notes) :
              epub.result.pages[p].notes[k].number = 2

\* --------------------------------------------------------------------- C29
IsTitlePageStart(be) == be.type = "BeginTitlePage"

IsTitlePageEnd(be) == be.type = "EndTitlePage"

IsHeaderStart(be) == be.type = "BeginDivisionHeader"

IsHeaderEnd(be) == be.type = "EndDivisionHeader"

\* the plain content tokens of a stream: its text events outside the
\* titlepage, which is drawn as an image, and outside the division headers,
\* which are written as headings
ContentTokens(stream) ==
    LET framed == Within(stream, IsTitlePageStart, IsTitlePageEnd)
                    \cup Within(stream, IsHeaderStart, IsHeaderEnd)
    IN  {k \in 1..Len(stream) :
            /\ k \notin framed
            /\ stream[k].type = "Event"
            /\ stream[k].event.kind = "Text"}

\* the places of the pages where the text t was written
WrittenInPages(pages, t) ==
    {<<p, k>> \in UNION {{<<p, k>> : k \in 1..Len(pages[p].content)} : p \in 1..Len(pages)} :
        pages[p].content[k] = Text(t)}

\* C29: the EPUB backend never drops content: every plain content token of
\* the assembled stream is written into exactly one page, the mainmatter text
\* before the first chapter heading and the text between a part header and
\* the first chapter of the part included
C29_NoContentDropped ==
    EpubRendered =>
        LET stream == epub.given
            tokens == ContentTokens(stream)
        IN  \A t \in {stream[k].event.text : k \in tokens} :
                Cardinality(WrittenInPages(epub.result.pages, t))
                    = Cardinality({k \in tokens : stream[k].event.text = t})

\* --------------------------------------------------------------------- C30
\* the divisions that switch to the mainmatter when they come first
OpensMainmatter(be) ==
    be.type = "BeginSemantic" /\ be.role \in {"Introduction", "Foreword", "Preface"}

IsBeginMainmatter(be) == be.type = "BeginMainmatter"

\* C30: in a LaTeX render of a stream the builder assembled, the \mainmatter
\* switch is written once: at the first foreword, introduction or preface
\* when there is one before BeginMainmatter, and at BeginMainmatter otherwise
C30_MainmatterOnce ==
    LatexRendered =>
        LET contents == latex.result.contents
            early    == PositionsWhere(contents, OpensMainmatter)
            begin    == PositionsWhere(contents, IsBeginMainmatter)
        IN  /\ CommandCount(latex.result.output, "mainmatter") = 1
            /\ Len(begin) = 1
            /\ \A k \in 1..Len(early) : early[k] < begin[1]
            /\ CommandCount(WrittenAt(IF early # <<>> THEN early[1] ELSE begin[1]),
                            "mainmatter") = 1

\* a LaTeX render of a book with two divisions that open the mainmatter
\* before BeginMainmatter
C30_Witness ==
    /\ LatexRendered
    /\ Len(PositionsWhere(latex.result.contents, OpensMainmatter)) >= 2
    /\ CommandCount(latex.result.output, "mainmatter") = 1

====
